---- MODULE Spec2Model ----
(***************************************************************************)
(* A model of the Z.AI proxy's credential pool (cookie_manager.py) and of  *)
(* its two upstream stream decoders (proxy_handler.py).                    *)
(*                                                                         *)
(* Three specifications share the variables:                               *)
(*   Spec         the credential pool driven by concurrent request tasks   *)
(*                (stream_proxy_response) and the periodic health check;   *)
(*   SpecDecoder  one upstream response body delivered in arbitrary reads  *)
(*                to process_streaming_response or to the inline decoder   *)
(*                of stream_proxy_response;                                *)
(*   SpecRequest  one client request from handle_chat_completion to its    *)
(*                last outbound item, in streaming and non-streaming mode. *)
(* Each specification keeps the other parts' variables at their idle       *)
(* values.                                                                 *)
(***************************************************************************)
EXTENDS Integers, Sequences, FiniteSets, TLC

(***************************************************************************)
(* Bounds                                                                  *)
(***************************************************************************)
\* Longest credential pool; credentials are the opaque values 1..MaxPool.
MaxPool == 2
\* Concurrent request tasks.
NumRequests == 2
\* Lines of one upstream response body.
MaxLines == 3
\* Lines of the upstream response body of one whole client request.
MaxRecords == 2
\* Tokens of a text given to transform_content.
MaxText == 4
\* Applications of transform_content in a row, each to the result of the
\* one before.
MaxApplications == 2
\* Request tasks that run beside the health-check task when every lock
\* acquisition, mutation and release is a step of its own.
NumWorkers == 1

VARIABLES
    \* ---- CookieManager (cookie_manager.py 14-18)
    cookies,          \* self.cookies: the pool, a sequence of credentials
    current_index,    \* self.current_index: rotation cursor, 0-based
    failed_cookies,   \* self.failed_cookies: set of credentials
    \* ---- request tasks running stream_proxy_response
    rpc,              \* position of each request task
    rcookie,          \* the local `cookie` of each request task
    \* ---- periodic_health_check task
    hc_pc,            \* "sleep" | "probing"
    hc_todo,          \* the rest of list(self.failed_cookies) of this cycle
    \* ---- history of the pool's calls (not program state)
    last,             \* the last pool call: what, argument, result, state before
    focus,            \* the credential whose rotation is being watched
    owed,             \* credentials non-failed since focus was last returned
                      \* and not returned since
    \* ---- one upstream response body and its decoder
    impl,             \* "A" process_streaming_response | "B" stream_proxy_response
    show_think,       \* settings.SHOW_THINK_TAGS
    body,             \* the whole upstream body, a sequence of characters
    pos,              \* characters delivered so far
    dec,              \* the decoder: its `buffer`, the records it has decoded,
                      \* the outbound events yielded (implementation B), its
                      \* outcome "running" | "sentinel" | "eof" |
                      \* "upstream_error" | "crash", and the detail of the
                      \* upstream-error condition raised
    \* ---- one client request seen from handle_chat_completion
    req,              \* request.stream, what the client got in the end, and
                      \* the history of the request's calls (not program state)
    \* ---- transform_content applied to a text
    tf,               \* the text given first and the results returned so far
    \* ---- stream_response reading process_streaming_response
    sr,               \* the generator it reads from, the outbound events it
                      \* has yielded, and "running" | "completed" | "error"
    \* ---- tasks at the granularity of the pool's lock
    lock,             \* self.lock: the task that holds it, or NoTask
    wk,               \* each request task: position, local `cookie`, local
                      \* `attempts`, and the pool as it was when the task
                      \* took the lock (not program state)
    hc,               \* the health-check cycle under way: the failed set it
                      \* started from, the credential being probed, and the
                      \* history of its probes and calls (not program state;
                      \* dropped when the cycle is over)
    life,             \* main.py lifespan: "serving" | "stopping" | "stopped"
                      \* | "raised"
    \* ---- the upstream as health_check sees it
    steady            \* the credentials every probe of which returns True
                      \* from now on (not program state)

poolVars == <<cookies, current_index, failed_cookies, rpc, rcookie,
              hc_pc, hc_todo, last, focus, owed>>
taskVars == <<lock, wk, hc, life>>
auxVars == <<tf, sr, steady, taskVars>>
decVars == <<impl, show_think, body, pos, dec, req, auxVars>>
vars == <<poolVars, decVars>>

(***************************************************************************)
(* Credential pool: cookie_manager.py                                      *)
(***************************************************************************)
Creds == 1..MaxPool
\* Python's None, as returned by get_next_cookie.
None == 0
Requests == 1..NumRequests

Range(s) == {s[i] : i \in 1..Len(s)}

RECURSIVE UpTo(_, _)
\* The largest value among the first n elements of s (0 when n = 0).
UpTo(s, n) == IF n = 0 THEN 0
              ELSE IF s[n] > UpTo(s, n - 1) THEN s[n] ELSE UpTo(s, n - 1)

\* Z_AI_COOKIES split at commas: any list of credentials, repeats included.
\* Credentials are only ever compared for equality, so each list is taken
\* with its values numbered in order of first appearance.
Pools ==
    {p \in UNION {[1..n -> Creds] : n \in 0..MaxPool} :
        \A i \in 1..Len(p) : p[i] <= UpTo(p, i - 1) + 1}

\* The while loop advancing the cursor without the modulo.
RECURSIVE ScanLoop_NoWrap(_, _, _, _)
ScanLoop_NoWrap(cks, idx, failed, attempts) ==
    IF attempts >= Len(cks) \/ idx >= Len(cks)
    THEN [found |-> FALSE, ret |-> None, index |-> idx]
    ELSE LET cookie == cks[idx + 1]
             nidx == idx + 1
         IN  IF cookie \notin failed
             THEN [found |-> TRUE, ret |-> cookie, index |-> nidx]
             ELSE ScanLoop_NoWrap(cks, nidx, failed, attempts + 1)

\* The loop leaving the cursor on the credential it returns.
RECURSIVE ScanLoop_CursorOnReturned(_, _, _, _)
ScanLoop_CursorOnReturned(cks, idx, failed, attempts) ==
    IF attempts >= Len(cks)
    THEN [found |-> FALSE, ret |-> None, index |-> idx]
    ELSE LET cookie == cks[idx + 1]
             nidx == (idx + 1) % Len(cks)
         IN  IF cookie \notin failed
             THEN [found |-> TRUE, ret |-> cookie, index |-> idx]
             ELSE ScanLoop_CursorOnReturned(cks, nidx, failed, attempts + 1)

\* The while loop of get_next_cookie.
RECURSIVE ScanLoop(_, _, _, _)
ScanLoop(cks, idx, failed, attempts) ==
    IF attempts >= Len(cks)
    THEN [found |-> FALSE, ret |-> None, index |-> idx]
    ELSE LET cookie == cks[idx + 1]
             nidx == (idx + 1) % Len(cks)
         IN  IF cookie \notin failed
             THEN [found |-> TRUE, ret |-> cookie, index |-> nidx]
             ELSE ScanLoop(cks, nidx, failed, attempts + 1)

\* get_next_cookie with the all-failed reset left out: returns None.
get_next_cookie_NoReset(cks, idx, failed) ==
    IF Len(cks) = 0
    THEN [ret |-> None, index |-> idx, failed |-> failed]
    ELSE LET s == ScanLoop(cks, idx, failed, 0)
         IN  [ret |-> s.ret, index |-> s.index, failed |-> failed]

\* get_next_cookie returning the credential under the cursor, failed or not.
get_next_cookie_NoSkip(cks, idx, failed) ==
    IF Len(cks) = 0
    THEN [ret |-> None, index |-> idx, failed |-> failed]
    ELSE [ret |-> cks[idx + 1], index |-> (idx + 1) % Len(cks), failed |-> failed]

\* get_next_cookie whose reset returns the credential under the cursor.
get_next_cookie_ResetAtCursor(cks, idx, failed) ==
    IF Len(cks) = 0
    THEN [ret |-> None, index |-> idx, failed |-> failed]
    ELSE LET s == ScanLoop(cks, idx, failed, 0)
         IN  IF s.found
             THEN [ret |-> s.ret, index |-> s.index, failed |-> failed]
             ELSE [ret |-> cks[s.index + 1], index |-> s.index, failed |-> {}]

\* get_next_cookie: the value returned, and the cursor and failed set it leaves.
get_next_cookie(cks, idx, failed) ==
    IF Len(cks) = 0
    THEN [ret |-> None, index |-> idx, failed |-> failed]
    ELSE LET s == ScanLoop(cks, idx, failed, 0)
         IN  IF s.found
             THEN [ret |-> s.ret, index |-> s.index, failed |-> failed]
             ELSE IF failed # {}
             THEN [ret |-> cks[1], index |-> s.index, failed |-> {}]
             ELSE [ret |-> None, index |-> s.index, failed |-> failed]

\* mark_cookie_failed: the failed set it leaves.
mark_cookie_failed(failed, cookie) == failed \cup {cookie}

\* mark_cookie_success that only logs.
mark_cookie_success_LogOnly(failed, cookie) == failed

\* mark_cookie_success: the failed set it leaves.
mark_cookie_success(failed, cookie) ==
    IF cookie \in failed THEN failed \ {cookie} ELSE failed

\* The history record of one pool call, with the state it was called in.
Call(op, arg, ret, skipped) ==
    [op |-> op, arg |-> arg, ret |-> ret, skipped |-> skipped,
     pre_failed |-> failed_cookies, pre_index |-> current_index]

\* The request record while no single request is followed.
RequestIdle ==
    [stream |-> FALSE, acquires |-> 0, calls |-> 0, log |-> <<>>,
     result |-> "none", cause |-> "none", status |-> 0, content |-> <<>>,
     conn |-> "none"]

\* No text is being transformed.
TransformIdle == [input |-> <<>>, outputs |-> <<>>]

\* The tasks of the process: the health-check task and the request tasks.
NoTask == -1
HealthTask == 0
Workers == 1..NumWorkers

\* A request task before its call of get_next_cookie; when its request has
\* ended the task slot serves the next one.
WorkerIdle ==
    [pc |-> "init", cookie |-> None, attempts |-> 0,
     entry |-> [index |-> 0, failed |-> {}]]

\* No health-check cycle has run yet.
CycleIdle ==
    [start |-> {}, cur |-> None, probes |-> [c \in Creds |-> 0],
     healthy |-> {}, marked |-> {}, removed |-> {},
     entry |-> [index |-> 0, failed |-> {}]]

TasksIdle ==
    /\ lock = NoTask
    /\ wk = [w \in Workers |-> WorkerIdle]
    /\ hc = CycleIdle
    /\ life = "serving"

\* stream_response is not running.
StreamIdle ==
    [dec |-> [buffer |-> <<>>, decoded |-> <<>>, events |-> <<>>,
              outcome |-> "idle", detail |-> ""],
     events |-> <<>>, outcome |-> "idle"]

AuxIdle == tf = TransformIdle /\ sr = StreamIdle /\ steady = {} /\ TasksIdle

\* The decoder's variables while no body is being decoded.
DecoderIdle ==
    /\ impl = "A"
    /\ show_think = FALSE
    /\ body = <<>>
    /\ pos = 0
    /\ dec = [buffer |-> <<>>, decoded |-> <<>>, events |-> <<>>,
              outcome |-> "idle", detail |-> ""]
    /\ req = RequestIdle
    /\ AuxIdle

\* CookieManager.__init__ on any configured list of credentials.
Init ==
    /\ cookies \in Pools
    /\ current_index = 0
    /\ failed_cookies = {}
    /\ rpc = [r \in Requests |-> "init"]
    /\ rcookie = [r \in Requests |-> None]
    /\ hc_pc = "sleep"
    /\ hc_todo = {}
    /\ last = [op |-> "init", arg |-> None, ret |-> None, skipped |-> {},
               pre_failed |-> {}, pre_index |-> 0]
    /\ focus \in Creds
    /\ owed = {}
    /\ DecoderIdle

\* cookie = await cookie_manager.get_next_cookie(); 503 when it is None.
ReqAcquire(r) ==
    /\ rpc[r] = "init"
    /\ LET res == get_next_cookie(cookies, current_index, failed_cookies)
       IN  /\ current_index' = res.index
           /\ failed_cookies' = res.failed
           /\ last' = Call("acquire", None, res.ret,
                           IF res.ret = focus THEN owed ELSE {})
           /\ owed' = IF res.ret = None THEN owed
                      ELSE IF res.ret = focus
                      THEN (Range(cookies) \ res.failed) \ {focus}
                      ELSE owed \ {res.ret}
           /\ IF res.ret = None
              THEN UNCHANGED <<rpc, rcookie>>
              ELSE /\ rpc' = [rpc EXCEPT ![r] = "sent"]
                   /\ rcookie' = [rcookie EXCEPT ![r] = res.ret]
    /\ UNCHANGED <<cookies, hc_pc, hc_todo, focus, decVars>>

\* The request task calls mark_cookie_failed(cookie) and ends with an error.
FailAndRaise(r) ==
    /\ failed_cookies' = mark_cookie_failed(failed_cookies, rcookie[r])
    /\ last' = Call("mark_failed", rcookie[r], None, {})
    /\ owed' = owed \ {rcookie[r]}
    /\ rpc' = [rpc EXCEPT ![r] = "init"]
    /\ rcookie' = [rcookie EXCEPT ![r] = None]
    /\ UNCHANGED <<cookies, current_index, hc_pc, hc_todo, focus, decVars>>

\* response.status_code == 401
ReqStatus401(r) ==
    /\ rpc[r] = "sent"
    /\ FailAndRaise(r)

\* response.status_code != 200 (and not 401)
ReqStatusOther(r) ==
    /\ rpc[r] = "sent"
    /\ FailAndRaise(r)

\* response.status_code == 200: mark_cookie_success, then the body is read.
ReqStatus200(r) ==
    /\ rpc[r] = "sent"
    /\ failed_cookies' = mark_cookie_success(failed_cookies, rcookie[r])
    /\ last' = Call("mark_success", rcookie[r], None, {})
    /\ rpc' = [rpc EXCEPT ![r] = "streaming"]
    /\ UNCHANGED <<cookies, current_index, rcookie, hc_pc, hc_todo,
                   focus, owed, decVars>>

\* httpx.RequestError while connecting or while reading the body.
ReqRequestError(r) ==
    /\ rpc[r] \in {"sent", "streaming"}
    /\ FailAndRaise(r)

\* The body ends (sentinel or connection closed): the generator returns.
ReqBodyDone(r) ==
    /\ rpc[r] = "streaming"
    /\ rpc' = [rpc EXCEPT ![r] = "init"]
    /\ rcookie' = [rcookie EXCEPT ![r] = None]
    /\ UNCHANGED <<cookies, current_index, failed_cookies, hc_pc, hc_todo,
                   last, focus, owed, decVars>>

\* periodic_health_check wakes up: list(self.failed_cookies) when there is
\* something to probe, else straight back to sleep.
HcStartCycle ==
    /\ hc_pc = "sleep"
    /\ IF Len(cookies) > 0 /\ failed_cookies # {}
       THEN /\ hc_pc' = "probing"
            /\ hc_todo' = failed_cookies
       ELSE UNCHANGED <<hc_pc, hc_todo>>
    /\ UNCHANGED <<cookies, current_index, failed_cookies, rpc, rcookie,
                   last, focus, owed, decVars>>

\* One iteration of the for loop: health_check(cookie) answers healthy or
\* not; mark_cookie_success(cookie) when healthy.
HcProbe(cookie, healthy) ==
    /\ hc_pc = "probing"
    /\ cookie \in hc_todo
    /\ hc_todo' = hc_todo \ {cookie}
    /\ hc_pc' = IF hc_todo' = {} THEN "sleep" ELSE "probing"
    /\ IF healthy
       THEN /\ failed_cookies' = mark_cookie_success(failed_cookies, cookie)
            /\ last' = Call("mark_success", cookie, None, {})
       ELSE UNCHANGED <<failed_cookies, last>>
    /\ UNCHANGED <<cookies, current_index, rpc, rcookie, focus, owed, decVars>>

Next ==
    \/ \E r \in Requests : ReqAcquire(r)
    \/ \E r \in Requests : ReqStatus401(r)
    \/ \E r \in Requests : ReqStatusOther(r)
    \/ \E r \in Requests : ReqStatus200(r)
    \/ \E r \in Requests : ReqRequestError(r)
    \/ \E r \in Requests : ReqBodyDone(r)
    \/ HcStartCycle
    \/ \E c \in Creds, healthy \in BOOLEAN : HcProbe(c, healthy)

Spec == Init /\ [][Next]_vars

(***************************************************************************)
(* Upstream stream decoders: proxy_handler.py                              *)
(*                                                                         *)
(* Text is a sequence of characters.  "data:" and "[DONE]" stand for those *)
(* runs of characters, "{a" "{t" "{e" "{E" "{o" "{m" "{z" for the text of  *)
(* a JSON object up to its closing brace "}", "1" for a JSON number.       *)
(***************************************************************************)
NL == "\n"
\* Characters str.strip() removes.
Whitespace == {" ", "\r", "\n"}

RECURSIVE LStrip(_)
LStrip(s) == IF s # <<>> /\ Head(s) \in Whitespace THEN LStrip(Tail(s)) ELSE s

RECURSIVE RStrip(_)
RStrip(s) == IF s # <<>> /\ s[Len(s)] \in Whitespace
             THEN RStrip(SubSeq(s, 1, Len(s) - 1)) ELSE s

\* str.strip()
Strip(s) == RStrip(LStrip(s))

\* line.startswith("data: ")
StartsWithData(line) == Len(line) >= 2 /\ line[1] = "data:" /\ line[2] = " "

\* line[6:].strip()
Payload(line) == Strip(SubSeq(line, 3, Len(line)))

\* An absent "error" member, and one with a detail string.
NoError == [present |-> FALSE, detail |-> ""]
ErrorWith(d) == [present |-> TRUE, detail |-> d]

\* An absent "data" member: parsed.get("data", {}) gives the empty dict.
NoData == [present |-> FALSE, phase |-> "", delta_content |-> <<>>,
           error |-> NoError, edit_index |-> FALSE, edit_content |-> FALSE]

\* The upstream's records: what json.loads returns for each JSON text.
\*   {a  {"data": {"phase": "answer", "delta_content": "</details>A", "edit_index": 1}}
\*   {t  {"data": {"phase": "thinking", "delta_content": "<details>T", "edit_content": ".."}}
\*   {e  {"error": {"detail": "x"}}
\*   {E  {"data": {"error": {"detail": "y"}}}
\*   1   the number 1 (not a dict)
\*   {o  {"data": {"phase": "other", "delta_content": "o"}}
\*   {m  {"data": {"delta_content": "m"}}
\*   {z  {"data": {"phase": "answer", "delta_content": ""}}
JsonValue(text) ==
    CASE text = <<"{a", "}">> ->
           [isobj |-> TRUE, error |-> NoError,
            data |-> [present |-> TRUE, phase |-> "answer",
                      delta_content |-> <<"</details>", "A">>, error |-> NoError,
                      edit_index |-> TRUE, edit_content |-> FALSE]]
      [] text = <<"{t", "}">> ->
           [isobj |-> TRUE, error |-> NoError,
            data |-> [present |-> TRUE, phase |-> "thinking",
                      delta_content |-> <<"<details>", "T">>, error |-> NoError,
                      edit_index |-> FALSE, edit_content |-> TRUE]]
      [] text = <<"{e", "}">> ->
           [isobj |-> TRUE, error |-> ErrorWith("x"), data |-> NoData]
      [] text = <<"{E", "}">> ->
           [isobj |-> TRUE, error |-> NoError,
            data |-> [NoData EXCEPT !.present = TRUE, !.error = ErrorWith("y")]]
      [] text = <<"{o", "}">> ->
           [isobj |-> TRUE, error |-> NoError,
            data |-> [NoData EXCEPT !.present = TRUE, !.phase = "other",
                                    !.delta_content = <<"o">>]]
      [] text = <<"{m", "}">> ->
           [isobj |-> TRUE, error |-> NoError,
            data |-> [NoData EXCEPT !.present = TRUE,
                                    !.delta_content = <<"m">>]]
      [] text = <<"{z", "}">> ->
           [isobj |-> TRUE, error |-> NoError,
            data |-> [NoData EXCEPT !.present = TRUE, !.phase = "answer"]]
      [] OTHER ->
           [isobj |-> FALSE, error |-> NoError, data |-> NoData]

\* The texts json.loads accepts; on any other it raises JSONDecodeError.
JsonTexts == {<<"{a", "}">>, <<"{t", "}">>, <<"{e", "}">>, <<"{E", "}">>, <<"1">>,
              <<"{o", "}">>, <<"{m", "}">>, <<"{z", "}">>}

\* json.loads(payload)
json_loads(payload) ==
    IF payload \in JsonTexts
    THEN [ok |-> TRUE, value |-> JsonValue(payload)]
    ELSE [ok |-> FALSE, value |-> JsonValue(<<>>)]

\* parsed.get("error") or parsed.get("data", {}).get("error")
HasErrorIndicator(parsed) == parsed.error.present \/ parsed.data.error.present

\* parsed.get("error", {}).get("detail")
\*   or parsed.get("data", {}).get("error", {}).get("detail")
\*   or "Unknown error from upstream"
ErrorDetail(parsed) ==
    IF parsed.error.present /\ parsed.error.detail # ""
    THEN parsed.error.detail
    ELSE IF parsed.data.error.present /\ parsed.data.error.detail # ""
    THEN parsed.data.error.detail
    ELSE "Unknown error from upstream"

\* parsed["data"].pop("edit_index", None); parsed["data"].pop("edit_content", None)
CleanUp(parsed) ==
    IF parsed.data.present
    THEN [parsed EXCEPT !.data.edit_index = FALSE, !.data.edit_content = FALSE]
    ELSE parsed

\* re.sub(r'<details[^>]*>', '<think>', s).replace('</details>', '</think>')
SimpleTagReplace_ClosingKept(delta) ==
    [i \in 1..Len(delta) |->
        IF delta[i] = "<details>" THEN "<think>" ELSE delta[i]]

\* Lines 74-75 and 604-605: every opening tag becomes "<think>", every
\* closing tag "</think>".
SimpleTagReplace(delta) ==
    [i \in 1..Len(delta) |->
        IF delta[i] = "<details>" THEN "<think>"
        ELSE IF delta[i] = "</details>" THEN "</think>"
        ELSE delta[i]]

\* The outbound events of stream_proxy_response.
ContentEvent(text) == [type |-> "content", content |-> text]
FinalEvent == [type |-> "final", content |-> <<>>]
DoneEvent == [type |-> "done", content |-> <<>>]

\* A decoder before its first read.
DecoderStart == [buffer |-> <<>>, decoded |-> <<>>, events |-> <<>>,
                 outcome |-> "running", detail |-> ""]

\* process_streaming_response with "[DONE]" skipped like an unparsable line.
LineA_SentinelIgnored(show, line, st) ==
    IF ~StartsWithData(line) THEN st
    ELSE LET p == json_loads(Payload(line))
         IN  IF ~p.ok THEN st
             ELSE IF ~p.value.isobj THEN [st EXCEPT !.outcome = "crash"]
             ELSE IF HasErrorIndicator(p.value)
             THEN [st EXCEPT !.outcome = "upstream_error",
                             !.detail = ErrorDetail(p.value)]
             ELSE [st EXCEPT !.decoded = Append(@, CleanUp(p.value))]

\* process_streaming_response letting the JSONDecodeError escape.
LineA_DecodeErrorEscapes(show, line, st) ==
    IF ~StartsWithData(line) THEN st
    ELSE IF Payload(line) = <<"[DONE]">> THEN [st EXCEPT !.outcome = "sentinel"]
    ELSE LET p == json_loads(Payload(line))
         IN  IF ~p.ok THEN [st EXCEPT !.outcome = "crash"]
             ELSE IF ~p.value.isobj THEN [st EXCEPT !.outcome = "crash"]
             ELSE IF HasErrorIndicator(p.value)
             THEN [st EXCEPT !.outcome = "upstream_error",
                             !.detail = ErrorDetail(p.value)]
             ELSE [st EXCEPT !.decoded = Append(@, CleanUp(p.value))]

\* process_streaming_response, lines 224-259: one complete line.  The
\* generator returns at the sentinel, raises HTTPException(400) at a record
\* with an error indicator, and lets the AttributeError of parsed.get escape
\* when the payload is JSON but not a dict.
LineA(show, line, st) ==
    IF ~StartsWithData(line) THEN st
    ELSE IF Payload(line) = <<"[DONE]">> THEN [st EXCEPT !.outcome = "sentinel"]
    ELSE LET p == json_loads(Payload(line))
         IN  IF ~p.ok THEN st
             ELSE IF ~p.value.isobj THEN [st EXCEPT !.outcome = "crash"]
             ELSE IF HasErrorIndicator(p.value)
             THEN [st EXCEPT !.outcome = "upstream_error",
                             !.detail = ErrorDetail(p.value)]
             ELSE [st EXCEPT !.decoded = Append(@, CleanUp(p.value))]

\* stream_proxy_response forwarding the thinking phase whatever the setting.
LineB_ThinkingForwarded(show, line, st) ==
    IF ~StartsWithData(line) THEN st
    ELSE IF Payload(line) = <<"[DONE]">>
    THEN [st EXCEPT !.events = @ \o <<FinalEvent, DoneEvent>>,
                    !.outcome = "sentinel"]
    ELSE LET p == json_loads(Payload(line))
         IN  IF ~p.ok THEN st
             ELSE IF ~p.value.isobj THEN [st EXCEPT !.outcome = "crash"]
             ELSE LET delta_content == p.value.data.delta_content
                      transformed_delta == IF show THEN SimpleTagReplace(delta_content)
                                           ELSE delta_content
                  IN  [st EXCEPT
                         !.decoded = Append(@, p.value),
                         !.events = IF delta_content # <<>>
                                    THEN Append(@, ContentEvent(transformed_delta))
                                    ELSE @]

\* stream_proxy_response putting the newest content event before the ones
\* already sent.
LineB_NewestFirst(show, line, st) ==
    IF ~StartsWithData(line) THEN st
    ELSE IF Payload(line) = <<"[DONE]">>
    THEN [st EXCEPT !.events = @ \o <<FinalEvent, DoneEvent>>,
                    !.outcome = "sentinel"]
    ELSE LET p == json_loads(Payload(line))
         IN  IF ~p.ok THEN st
             ELSE IF ~p.value.isobj THEN [st EXCEPT !.outcome = "crash"]
             ELSE LET data == p.value.data
                      delta_content == data.delta_content
                      should_send_content == ~(~show /\ data.phase = "thinking")
                      transformed_delta == IF show THEN SimpleTagReplace(delta_content)
                                           ELSE delta_content
                  IN  [st EXCEPT
                         !.decoded = Append(@, p.value),
                         !.events = IF delta_content # <<>> /\ should_send_content
                                    THEN <<ContentEvent(transformed_delta)>> \o @
                                    ELSE @]

\* stream_proxy_response, lines 551-620: one complete line.  No check for an
\* error indicator; the record is filtered and re-emitted at once.
LineB(show, line, st) ==
    IF ~StartsWithData(line) THEN st
    ELSE IF Payload(line) = <<"[DONE]">>
    THEN [st EXCEPT !.events = @ \o <<FinalEvent, DoneEvent>>,
                    !.outcome = "sentinel"]
    ELSE LET p == json_loads(Payload(line))
         IN  IF ~p.ok THEN st
             ELSE IF ~p.value.isobj THEN [st EXCEPT !.outcome = "crash"]
             ELSE LET data == p.value.data
                      delta_content == data.delta_content
                      should_send_content == ~(~show /\ data.phase = "thinking")
                      transformed_delta == IF show THEN SimpleTagReplace(delta_content)
                                           ELSE delta_content
                  IN  [st EXCEPT
                         !.decoded = Append(@, p.value),
                         !.events = IF delta_content # <<>> /\ should_send_content
                                    THEN Append(@, ContentEvent(transformed_delta))
                                    ELSE @]

\* The handling of one complete line by the chosen implementation.
HandleLine(which, show, line, st) ==
    IF which = "A" THEN LineA(show, line, st) ELSE LineB(show, line, st)

\* The position of the first "\n" of a text that holds one.
FirstNL(text) ==
    CHOOSE i \in 1..Len(text) :
        text[i] = NL /\ \A j \in 1..(i - 1) : text[j] # NL

\* while "\n" in buffer: line, buffer = buffer.split("\n", 1); ...
\* ended early by the generator's return or by an exception.
RECURSIVE DrainLines(_, _, _)
DrainLines(which, show, st) ==
    IF st.outcome # "running" \/ NL \notin Range(st.buffer) THEN st
    ELSE LET i == FirstNL(st.buffer)
             line == Strip(SubSeq(st.buffer, 1, i - 1))
             rest == SubSeq(st.buffer, i + 1, Len(st.buffer))
         IN  DrainLines(which, show,
                        HandleLine(which, show, line, [st EXCEPT !.buffer = rest]))

\* The loop body with `buffer = chunk` in place of `buffer += chunk`.
OnChunk_BufferOverwritten(which, show, st, chunk) ==
    IF chunk = <<>> THEN st
    ELSE DrainLines(which, show, [st EXCEPT !.buffer = chunk])

\* One iteration of `async for chunk in response.aiter_text(...)`.
OnChunk(which, show, st, chunk) ==
    IF chunk = <<>> THEN st
    ELSE DrainLines(which, show, [st EXCEPT !.buffer = @ \o chunk])

\* The end of the body: the async for ends with whatever is in the buffer.
OnEnd(st) == IF st.outcome = "running" THEN [st EXCEPT !.outcome = "eof"] ELSE st

\* The lines an upstream body is made of here (without their "\n").
LineTemplates ==
    { <<"data:", " ", "{a", "}">>,
      <<"data:", " ", "{t", "}">>,
      <<"data:", " ", "[DONE]">>,
      <<"data:", " ", "{e", "}">>,
      <<"data:", " ", "{E", "}">>,
      <<"data:", " ", "1">>,
      <<"data:", " ", "{a">>,
      <<" ", "data:", " ", " ", "[DONE]", "\r">>,
      <<>> }

RECURSIVE Join(_, _)
\* The lines in order, each ended by "\n", the last one only if ended is true.
Join(ls, ended) ==
    IF ls = <<>> THEN <<>>
    ELSE IF Len(ls) = 1 THEN (IF ended THEN Append(ls[1], NL) ELSE ls[1])
    ELSE Append(ls[1], NL) \o Join(Tail(ls), ended)

\* Upstream bodies: up to MaxLines lines, the last complete or cut off.
Bodies ==
    {Join(ls, ended) :
        ls \in UNION {[1..n -> LineTemplates] : n \in 0..MaxLines},
        ended \in BOOLEAN}

\* The pool's variables while only a decoder runs.
PoolIdle ==
    /\ cookies = <<>>
    /\ current_index = 0
    /\ failed_cookies = {}
    /\ rpc = [r \in Requests |-> "init"]
    /\ rcookie = [r \in Requests |-> None]
    /\ hc_pc = "sleep"
    /\ hc_todo = {}
    /\ last = [op |-> "init", arg |-> None, ret |-> None, skipped |-> {},
               pre_failed |-> {}, pre_index |-> 0]
    /\ focus = 1
    /\ owed = {}

\* A 200 response whose body is about to be read by one of the decoders.
\* SHOW_THINK_TAGS, which only renames the tags inside the text of one
\* event of stream_proxy_response, is off here; SpecRequest runs that
\* decoder under both settings.
InitDecoder ==
    /\ PoolIdle
    /\ impl \in {"A", "B"}
    /\ show_think = FALSE
    /\ body \in Bodies
    /\ pos = 0
    /\ dec = DecoderStart
    /\ req = RequestIdle
    /\ AuxIdle

\* The network delivers the next k characters (none: an empty read) and the
\* decoder runs one iteration of its loop on them.
Read(k) ==
    /\ dec.outcome = "running"
    /\ k \in 0..(Len(body) - pos)
    /\ dec' = OnChunk(impl, show_think, dec, SubSeq(body, pos + 1, pos + k))
    /\ pos' = pos + k
    /\ UNCHANGED <<auxVars, impl, show_think, body, req, poolVars>>

\* The upstream closes the connection after the last character.
ReadEnd ==
    /\ dec.outcome = "running"
    /\ pos = Len(body)
    /\ dec' = OnEnd(dec)
    /\ UNCHANGED <<auxVars, impl, show_think, body, pos, req, poolVars>>

NextDecoder ==
    \/ \E k \in 0..Len(body) : Read(k)
    \/ ReadEnd

SpecDecoder == InitDecoder /\ [][NextDecoder]_vars

(***************************************************************************)
(* The two streaming paths side by side: stream_response (309-397) over    *)
(* process_streaming_response, and stream_proxy_response (540-620)          *)
(***************************************************************************)
\* The outbound error event of stream_response, lines 391-397:
\* {"error": {"message": str(e), "type": "server_error"}}.
ErrorEvent(message) == [type |-> "error", content |-> <<message>>]

\* stream_response, lines 322-366: the body of its loop for one record that
\* process_streaming_response yielded.  current_phase is only logged.
RecordEvents(show, parsed) ==
    LET data == parsed.data
        delta_content == data.delta_content
        should_send_content == ~(~show /\ data.phase = "thinking")
        transformed_delta == IF show THEN SimpleTagReplace(delta_content)
                             ELSE delta_content
    IN  IF delta_content # <<>> /\ should_send_content
        THEN <<ContentEvent(transformed_delta)>>
        ELSE <<>>

RECURSIVE RecordsEvents(_, _)
\* The loop of stream_response over the records yielded in one read.
RecordsEvents(show, records) ==
    IF records = <<>> THEN <<>>
    ELSE RecordEvents(show, Head(records)) \o RecordsEvents(show, Tail(records))

\* stream_response, lines 372-397: when the generator is exhausted (it
\* returned at the sentinel, or the body ended) the final chunk and
\* "data: [DONE]"; when it raised (HTTPException at an error record,
\* AttributeError at a payload that is no dict) `except Exception` yields
\* one error event and nothing else.
StreamEnding(gen) ==
    IF gen.outcome \in {"sentinel", "eof"} THEN <<FinalEvent, DoneEvent>>
    ELSE IF gen.outcome = "upstream_error" THEN <<ErrorEvent(gen.detail)>>
    ELSE IF gen.outcome = "crash" THEN <<ErrorEvent("AttributeError")>>
    ELSE <<>>

\* stream_response after the generator it reads moved from st.dec to gen.
StreamAdvance(show, st, gen) ==
    [dec |-> gen,
     events |-> st.events
                \o RecordsEvents(show, SubSeq(gen.decoded,
                                              Len(st.dec.decoded) + 1,
                                              Len(gen.decoded)))
                \o StreamEnding(gen),
     outcome |-> IF gen.outcome = "running" THEN "running"
                 ELSE IF gen.outcome \in {"sentinel", "eof"} THEN "completed"
                 ELSE "error"]

\* stream_response about to read a 200 response.
StreamStart == [dec |-> DecoderStart, events |-> <<>>, outcome |-> "running"]

\* The lines of the bodies both paths are run on.
PathLines ==
    { <<"data:", " ", "{a", "}">>,
      <<"data:", " ", "{t", "}">>,
      <<"data:", " ", "[DONE]">>,
      <<"data:", " ", "{e", "}">>,
      <<"data:", " ", "1">>,
      <<>> }

PathBodies ==
    {Join(ls, ended) :
        ls \in UNION {[1..n -> PathLines] : n \in 0..MaxLines},
        ended \in BOOLEAN}

\* The same 200 response is about to be read by stream_proxy_response (dec)
\* and by stream_response (sr), under either setting of SHOW_THINK_TAGS.
InitPaths ==
    /\ PoolIdle
    /\ impl = "B"
    /\ show_think \in BOOLEAN
    /\ body \in PathBodies
    /\ pos = 0
    /\ dec = DecoderStart
    /\ sr = StreamStart
    /\ req = RequestIdle
    /\ tf = TransformIdle
    /\ steady = {}
    /\ TasksIdle

\* The network delivers the next k characters to both; each one that has
\* not ended runs one iteration of its loop on them.
PathsRead(k) ==
    /\ dec.outcome = "running" \/ sr.outcome = "running"
    /\ k \in 0..(Len(body) - pos)
    /\ LET chunk == SubSeq(body, pos + 1, pos + k)
       IN  /\ dec' = IF dec.outcome = "running"
                     THEN OnChunk("B", show_think, dec, chunk)
                     ELSE dec
           /\ sr' = IF sr.outcome = "running"
                    THEN StreamAdvance(show_think, sr,
                                       OnChunk("A", show_think, sr.dec, chunk))
                    ELSE sr
    /\ pos' = pos + k
    /\ UNCHANGED <<poolVars, impl, show_think, body, req, tf, steady, taskVars>>

\* The upstream closes the connection after the last character.
PathsReadEnd ==
    /\ dec.outcome = "running" \/ sr.outcome = "running"
    /\ pos = Len(body)
    /\ dec' = OnEnd(dec)
    /\ sr' = IF sr.outcome = "running"
             THEN StreamAdvance(show_think, sr, OnEnd(sr.dec))
             ELSE sr
    /\ UNCHANGED <<poolVars, impl, show_think, body, pos, req, tf, steady,
                   taskVars>>

NextPaths ==
    \/ \E k \in 0..Len(body) : PathsRead(k)
    \/ PathsReadEnd

SpecPaths == InitPaths /\ [][NextPaths]_vars

(***************************************************************************)
(* The full transform: transform_content, proxy_handler.py 40-97           *)
(*                                                                         *)
(* "<details>" stands for any opening tag matched by <details[^>]*>;       *)
(* "A", "T" and "1" are the characters of [A-Z] and \d.                    *)
(***************************************************************************)
UpperOrDigit == {"A", "T", "1"}

\* The first index from p on that holds no whitespace; Len(s) + 1 if none.
RECURSIVE SkipSpace(_, _)
SkipSpace(s, p) ==
    IF p <= Len(s) /\ s[p] \in Whitespace THEN SkipSpace(s, p + 1) ELSE p

\* The lookahead (?=\s*[A-Z]|\s*\d|\s*$) at position p.
AnswerAhead(s, p) ==
    LET q == SkipSpace(s, p) IN q > Len(s) \/ s[q] \in UpperOrDigit

\* re.sub(open + ".*?" + close, "", s, flags=re.DOTALL), from position i on.
RECURSIVE RemoveBlocks(_, _, _, _)
RemoveBlocks(s, open, close, i) ==
    IF i > Len(s) THEN <<>>
    ELSE IF s[i] = open /\ \E j \in (i + 1)..Len(s) : s[j] = close
    THEN LET j == CHOOSE j \in (i + 1)..Len(s) :
                      s[j] = close /\ \A k \in (i + 1)..(j - 1) : s[k] # close
         IN  RemoveBlocks(s, open, close, j + 1)
    ELSE <<s[i]>> \o RemoveBlocks(s, open, close, i + 1)

\* The same substitution with count=1: only the first match is removed.
RemoveOpenTags_FirstOnly(s, i) ==
    IF \E j \in i..Len(s) : s[j] = "<details>"
    THEN LET j == CHOOSE j \in i..Len(s) :
                      s[j] = "<details>" /\ \A k \in i..(j - 1) : s[k] # "<details>"
             p == CHOOSE p \in (j + 1)..(Len(s) + 1) :
                      AnswerAhead(s, p)
                      /\ \A k \in (j + 1)..(p - 1) : ~AnswerAhead(s, k)
         IN  SubSeq(s, i, j - 1) \o SubSeq(s, p, Len(s))
    ELSE SubSeq(s, i, Len(s))

\* re.sub(r"<details[^>]*>.*?(?=\s*[A-Z]|\s*\d|\s*$)", "", s), from i on.
RECURSIVE RemoveOpenTags(_, _)
RemoveOpenTags(s, i) ==
    IF i > Len(s) THEN <<>>
    ELSE IF s[i] = "<details>"
    THEN LET p == CHOOSE p \in (i + 1)..(Len(s) + 1) :
                      AnswerAhead(s, p)
                      /\ \A k \in (i + 1)..(p - 1) : ~AnswerAhead(s, k)
         IN  RemoveOpenTags(s, p)
    ELSE <<s[i]>> \o RemoveOpenTags(s, i + 1)

\* Lines 83-95: "</think>\n" before the first match of \n\s*[A-Z0-9] after
\* the first "<think>", or "</think>" at the end when there is no match.
CloseThink(c) ==
    LET think_start == CHOOSE i \in 1..Len(c) :
                           c[i] = "<think>" /\ \A k \in 1..(i - 1) : c[k] # "<think>"
        Match(q) == /\ c[q] = NL
                    /\ SkipSpace(c, q + 1) <= Len(c)
                    /\ c[SkipSpace(c, q + 1)] \in UpperOrDigit
    IN  IF \E q \in think_start..Len(c) : Match(q)
        THEN LET insert_pos == CHOOSE q \in think_start..Len(c) :
                                   Match(q) /\ \A k \in think_start..(q - 1) : ~Match(k)
             IN  SubSeq(c, 1, insert_pos - 1) \o <<"</think>", NL>>
                 \o SubSeq(c, insert_pos, Len(c))
        ELSE Append(c, "</think>")

\* transform_content(content) under settings.SHOW_THINK_TAGS = show.
transform_content(show, content) ==
    IF content = <<>> THEN content
    ELSE IF ~show
    THEN Strip(Strip(RemoveOpenTags(
             RemoveBlocks(content, "<details>", "</details>", 1), 1)))
    ELSE LET replaced == SimpleTagReplace(content)
             cut == RemoveBlocks(replaced, "<summary>", "</summary>", 1)
         IN  Strip(IF "<think>" \in Range(cut) /\ "</think>" \notin Range(cut)
                   THEN CloseThink(cut) ELSE cut)

\* The tokens of the texts transform_content is applied to: the tags it looks
\* for, a word starting with a capital ("A"), a word in lower case ("o"),
\* a blank and a newline.
TransformTokens ==
    {"<details>", "</details>", "<summary>", "</summary>", "A", "o", " ", NL}

Texts == UNION {[1..n -> TransformTokens] : n \in 0..MaxText}

\* A text is about to be given to transform_content, under either setting.
InitTransform ==
    /\ PoolIdle
    /\ impl = "A"
    /\ show_think \in BOOLEAN
    /\ body = <<>>
    /\ pos = 0
    /\ dec = [DecoderStart EXCEPT !.outcome = "idle"]
    /\ req = RequestIdle
    /\ \E text \in Texts : tf = [input |-> text, outputs |-> <<>>]
    /\ sr = StreamIdle
    /\ steady = {}
    /\ TasksIdle

\* transform_content is called on the text, or on what it returned last.
Transform ==
    /\ Len(tf.outputs) < MaxApplications
    /\ LET arg == IF tf.outputs = <<>> THEN tf.input
                  ELSE tf.outputs[Len(tf.outputs)]
       IN  tf' = [tf EXCEPT !.outputs = Append(@, transform_content(show_think, arg))]
    /\ UNCHANGED <<poolVars, impl, show_think, body, pos, dec, req, sr, steady, taskVars>>

NextTransform == Transform

SpecTransform == InitTransform /\ [][NextTransform]_vars

(***************************************************************************)
(* One client request: handle_chat_completion driving                       *)
(* stream_proxy_response, proxy_handler.py 261-307 and 453-625             *)
(***************************************************************************)
\* The request task followed by SpecRequest.
TheRequest == 1

\* Status codes of the upstream's response: success, authentication
\* rejected, any other.
Statuses == {200, 401, 429}

\* The handler of the status with the success status left unmarked.
OnStatus_SuccessUnmarked(status, failed, cookie) ==
    IF status # 200
    THEN [failed |-> mark_cookie_failed(failed, cookie),
          ops |-> <<"mark_failed">>, raise |-> status]
    ELSE [failed |-> failed, ops |-> <<"logged">>, raise |-> 0]

\* Lines 530-538: what the handler does with the pool on the response's
\* status, and the status of the HTTPException it raises (0: none).
OnStatus(status, failed, cookie) ==
    IF status = 401
    THEN [failed |-> mark_cookie_failed(failed, cookie),
          ops |-> <<"mark_failed">>, raise |-> 401]
    ELSE IF status # 200
    THEN [failed |-> mark_cookie_failed(failed, cookie),
          ops |-> <<"mark_failed">>, raise |-> status]
    ELSE [failed |-> mark_cookie_success(failed, cookie),
          ops |-> <<"mark_success">>, raise |-> 0]

\* The handler of httpx.RequestError that only logs and raises.
OnRequestError_Unmarked(failed, cookie) ==
    [failed |-> failed, ops |-> <<"logged">>, raise |-> 503]

\* Lines 622-625: the handler of httpx.RequestError.
OnRequestError(failed, cookie) ==
    [failed |-> mark_cookie_failed(failed, cookie),
     ops |-> <<"mark_failed">>, raise |-> 503]

\* The request task going back to acquire() after a 401.
PcAfterStatus_RetryOn401(status) ==
    IF status = 200 THEN "streaming" ELSE IF status = 401 THEN "init" ELSE "done"

\* Where the request task stands after the response's status was handled.
PcAfterStatus(status) == IF status = 200 THEN "streaming" ELSE "done"

RECURSIVE Collect(_)
\* handle_chat_completion 280-288: the delta content of every outbound item
\* that has one; the final item (empty delta) and "data: [DONE]" have none.
Collect(events) ==
    IF events = <<>> THEN <<>>
    ELSE IF Head(events).type = "content" /\ Head(events).content # <<>>
    THEN <<Head(events).content>> \o Collect(Tail(events))
    ELSE Collect(Tail(events))

RECURSIVE Concat(_)
\* "".join(chunks)
Concat(chunks) ==
    IF chunks = <<>> THEN <<>> ELSE Head(chunks) \o Concat(Tail(chunks))

\* The lines of the upstream body of a request (without their "\n").
RecordTemplates ==
    { <<"data:", " ", "{a", "}">>,
      <<"data:", " ", "{t", "}">>,
      <<"data:", " ", "{o", "}">>,
      <<"data:", " ", "{m", "}">>,
      <<"data:", " ", "{z", "}">>,
      <<"data:", " ", "{e", "}">>,
      <<"data:", " ", "[DONE]">> }

\* Upstream bodies of a request: up to MaxRecords lines, the last complete
\* or cut off by the connection closing.
RequestBodies ==
    {Join(ls, ended) :
        ls \in UNION {[1..n -> RecordTemplates] : n \in 0..MaxRecords},
        ended \in BOOLEAN}

\* The pools a followed request runs on: no credential, or distinct ones.
RequestPools ==
    {p \in Pools : \A i, j \in 1..Len(p) : p[i] = p[j] => i = j}

\* A client request arrives at handle_chat_completion: the pool as
\* constructed, request.stream (or settings.DEFAULT_STREAM) either way.
InitRequest ==
    /\ cookies \in RequestPools
    /\ current_index = 0
    /\ failed_cookies = {}
    /\ rpc = [r \in Requests |-> "init"]
    /\ rcookie = [r \in Requests |-> None]
    /\ hc_pc = "sleep"
    /\ hc_todo = {}
    /\ last = [op |-> "init", arg |-> None, ret |-> None, skipped |-> {},
               pre_failed |-> {}, pre_index |-> 0]
    /\ focus = 1
    /\ owed = {}
    /\ impl = "B"
    /\ show_think \in BOOLEAN
    /\ body = <<>>
    /\ pos = 0
    /\ dec = [DecoderStart EXCEPT !.outcome = "idle"]
    /\ \E s \in BOOLEAN : req = [RequestIdle EXCEPT !.stream = s]
    /\ AuxIdle

\* Lines 506 and 517-528: leaving the two "async with" blocks, normally or by
\* an exception, closes the upstream response and the client with it.
Unwound(conn) == IF conn = "open" THEN "closed" ELSE conn

\* The request ends with an exception: HTTPException(status) raised by the
\* generator, or any other exception (main.py turns it into a 500).  In
\* streaming mode the items already yielded have been sent.
Fault(r, cause, status) ==
    [r EXCEPT !.result = "fault", !.cause = cause, !.status = status,
              !.conn = Unwound(@)]

\* The generator is exhausted.  Streaming: the outbound stream ends.
\* Non-streaming (lines 290-307): one ChatCompletionResponse whose message
\* content is the joined delta contents.
Finish(r, d) ==
    IF r.stream
    THEN [r EXCEPT !.result = "stream_end", !.status = 200,
                   !.conn = Unwound(@)]
    ELSE [r EXCEPT !.result = "response", !.status = 200,
                   !.content = Concat(Collect(d.events)),
                   !.conn = Unwound(@)]

\* Lines 459-461 and 516-528: acquire a credential, 503 when there is none,
\* else build the envelope and send the upstream call.
RqAcquire ==
    /\ rpc[TheRequest] = "init"
    /\ LET res == get_next_cookie(cookies, current_index, failed_cookies)
       IN  /\ current_index' = res.index
           /\ failed_cookies' = res.failed
           /\ last' = Call("acquire", None, res.ret, {})
           /\ IF res.ret = None
              THEN /\ rpc' = [rpc EXCEPT ![TheRequest] = "done"]
                   /\ req' = Fault([req EXCEPT !.acquires = @ + 1,
                                               !.log = Append(@, "acquire")],
                                   "no_credential", 503)
                   /\ UNCHANGED rcookie
              ELSE /\ rpc' = [rpc EXCEPT ![TheRequest] = "sent"]
                   /\ rcookie' = [rcookie EXCEPT ![TheRequest] = res.ret]
                   /\ req' = [req EXCEPT !.acquires = @ + 1, !.calls = @ + 1,
                                         !.log = @ \o <<"acquire", "send">>,
                                         !.conn = "open"]
    /\ UNCHANGED <<cookies, hc_pc, hc_todo, focus, owed,
                   auxVars, impl, show_think, body, pos, dec>>

\* Lines 530-538: the response's headers arrive with a status; on 200 the
\* upstream is going to send one of the bodies.
RqStatus(status) ==
    /\ rpc[TheRequest] = "sent"
    /\ LET o == OnStatus(status, failed_cookies, rcookie[TheRequest])
           logged == [req EXCEPT !.log = @ \o o.ops]
       IN  /\ failed_cookies' = o.failed
           /\ last' = Call(o.ops[1], rcookie[TheRequest], None, {})
           /\ rpc' = [rpc EXCEPT ![TheRequest] = PcAfterStatus(status)]
           /\ IF o.raise # 0
              THEN /\ req' = Fault(logged,
                                   IF status = 401 THEN "status_401"
                                   ELSE "status_other", o.raise)
                   /\ UNCHANGED <<body, dec>>
              ELSE /\ req' = logged
                   /\ body' \in RequestBodies
                   /\ dec' = DecoderStart
    /\ UNCHANGED <<cookies, current_index, rcookie, hc_pc, hc_todo, focus, owed,
                   auxVars, impl, show_think, pos>>

\* Lines 622-625: httpx.RequestError while connecting or reading the body.
RqRequestError ==
    /\ \/ rpc[TheRequest] = "sent"
       \/ rpc[TheRequest] = "streaming" /\ dec.outcome = "running"
    /\ LET o == OnRequestError(failed_cookies, rcookie[TheRequest])
       IN  /\ failed_cookies' = o.failed
           /\ last' = Call(o.ops[1], rcookie[TheRequest], None, {})
           /\ req' = Fault([req EXCEPT !.log = @ \o o.ops], "transport", o.raise)
    /\ rpc' = [rpc EXCEPT ![TheRequest] = "done"]
    /\ UNCHANGED <<cookies, current_index, rcookie, hc_pc, hc_todo, focus, owed,
                   auxVars, impl, show_think, body, pos, dec>>

\* The client of a streaming request goes away: the generator is cancelled
\* where it is suspended (CancelledError or GeneratorExit, neither of them an
\* httpx.RequestError nor an Exception), a variant handles it as line 622
\* handles a transport failure.
OnDisconnect_AsTransportFailure(failed, cookie) ==
    [failed |-> mark_cookie_failed(failed, cookie), ops |-> <<"mark_failed">>]

\* Lines 516-625: no handler of the generator catches the cancellation, so
\* no pool method runs for it.
OnDisconnect(failed, cookie) ==
    [failed |-> failed, ops |-> <<>>]

\* The client disconnects while the generator waits for the upstream's
\* headers or while it relays the body (before its first step the generator
\* has done nothing that could be undone).
RqDisconnect ==
    /\ req.stream
    /\ \/ rpc[TheRequest] = "sent"
       \/ rpc[TheRequest] = "streaming" /\ dec.outcome = "running"
    /\ LET o == OnDisconnect(failed_cookies, rcookie[TheRequest])
       IN  /\ failed_cookies' = o.failed
           /\ last' = IF o.ops = <<>> THEN last
                      ELSE Call(o.ops[1], rcookie[TheRequest], None, {})
           /\ req' = [req EXCEPT !.log = @ \o o.ops, !.result = "cancelled",
                                 !.conn = Unwound(@)]
    /\ rpc' = [rpc EXCEPT ![TheRequest] = "done"]
    /\ UNCHANGED <<cookies, current_index, rcookie, hc_pc, hc_todo, focus, owed,
                   auxVars, impl, show_think, body, pos, dec>>

\* What the request has come to once the decoder is in state d.
AfterDecoding(r, d) ==
    IF d.outcome = "running" THEN r
    ELSE IF d.outcome = "crash" THEN Fault(r, "crash", 500)
    ELSE Finish(r, d)

\* Lines 542-620: the next k characters arrive and the loop body runs on
\* them; at the sentinel the generator returns, and an exception of the
\* loop body leaves the generator.
RqRead(k) ==
    /\ rpc[TheRequest] = "streaming"
    /\ dec.outcome = "running"
    /\ k \in 0..(Len(body) - pos)
    /\ LET d == OnChunk(impl, show_think, dec, SubSeq(body, pos + 1, pos + k))
       IN  /\ dec' = d
           /\ req' = AfterDecoding(req, d)
           /\ rpc' = [rpc EXCEPT ![TheRequest] =
                         IF d.outcome = "running" THEN "streaming" ELSE "done"]
    /\ pos' = pos + k
    /\ UNCHANGED <<cookies, current_index, failed_cookies, rcookie, hc_pc,
                   hc_todo, last, focus, owed, auxVars, impl, show_think, body>>

\* The upstream closes the connection after the last character: the async
\* for ends and the generator with it.
RqReadEnd ==
    /\ rpc[TheRequest] = "streaming"
    /\ dec.outcome = "running"
    /\ pos = Len(body)
    /\ dec' = OnEnd(dec)
    /\ req' = AfterDecoding(req, OnEnd(dec))
    /\ rpc' = [rpc EXCEPT ![TheRequest] = "done"]
    /\ UNCHANGED <<cookies, current_index, failed_cookies, rcookie, hc_pc,
                   hc_todo, last, focus, owed, auxVars, impl, show_think, body, pos>>

NextRequest ==
    \/ RqAcquire
    \/ \E status \in Statuses : RqStatus(status)
    \/ RqRequestError
    \/ \E k \in 0..Len(body) : RqRead(k)
    \/ RqReadEnd
    \/ RqDisconnect

SpecRequest == InitRequest /\ [][NextRequest]_vars

(***************************************************************************)
(* One client request on the other path: proxy_request (99-206) handing    *)
(* its response to stream_response (309-397) or non_stream_response        *)
(* (399-451)                                                               *)
(***************************************************************************)
\* Lines 178-195: what proxy_request does with the pool on the response's
\* status, and the status of the HTTPException it raises (0: none).
OnStatusProxy(status, failed, cookie) ==
    IF status = 401
    THEN [failed |-> mark_cookie_failed(failed, cookie),
          ops |-> <<"mark_failed">>, raise |-> 401]
    ELSE IF status # 200
    THEN [failed |-> failed, ops |-> <<>>, raise |-> status]
    ELSE [failed |-> mark_cookie_success(failed, cookie),
          ops |-> <<"mark_success">>, raise |-> 0]

\* A client request arrives at proxy_request.
InitProxy ==
    /\ cookies \in RequestPools
    /\ current_index = 0
    /\ failed_cookies = {}
    /\ rpc = [r \in Requests |-> "init"]
    /\ rcookie = [r \in Requests |-> None]
    /\ hc_pc = "sleep"
    /\ hc_todo = {}
    /\ last = [op |-> "init", arg |-> None, ret |-> None, skipped |-> {},
               pre_failed |-> {}, pre_index |-> 0]
    /\ focus = 1
    /\ owed = {}
    /\ impl = "A"
    /\ show_think \in BOOLEAN
    /\ body = <<>>
    /\ pos = 0
    /\ dec = [DecoderStart EXCEPT !.outcome = "idle"]
    /\ \E s \in BOOLEAN : req = [RequestIdle EXCEPT !.stream = s]
    /\ AuxIdle

\* Lines 101-103 and 168-176: acquire a credential, 503 when there is none,
\* else build the envelope and send the upstream call on self.client.
PxAcquire ==
    /\ rpc[TheRequest] = "init"
    /\ LET res == get_next_cookie(cookies, current_index, failed_cookies)
       IN  /\ current_index' = res.index
           /\ failed_cookies' = res.failed
           /\ last' = Call("acquire", None, res.ret, {})
           /\ IF res.ret = None
              THEN /\ rpc' = [rpc EXCEPT ![TheRequest] = "done"]
                   /\ req' = Fault([req EXCEPT !.acquires = @ + 1,
                                               !.log = Append(@, "acquire")],
                                   "no_credential", 503)
                   /\ UNCHANGED rcookie
              ELSE /\ rpc' = [rpc EXCEPT ![TheRequest] = "sent"]
                   /\ rcookie' = [rcookie EXCEPT ![TheRequest] = res.ret]
                   /\ req' = [req EXCEPT !.acquires = @ + 1, !.calls = @ + 1,
                                         !.log = @ \o <<"acquire", "send">>,
                                         !.conn = "open"]
    /\ UNCHANGED <<cookies, hc_pc, hc_todo, focus, owed,
                   auxVars, impl, show_think, body, pos, dec>>

\* Lines 178-196: the response's headers arrive with a status.  On 200
\* proxy_request calls mark_cookie_success and executes
\* `return {"response": response, "cookie": cookie}` inside the block
\* `async with self.client.stream(...) as response`: the return leaves the
\* block, which closes the response, and the caller gets the closed
\* response to read the body from.
PxStatus(status) ==
    /\ rpc[TheRequest] = "sent"
    /\ LET o == OnStatusProxy(status, failed_cookies, rcookie[TheRequest])
           logged == [req EXCEPT !.log = @ \o o.ops]
       IN  /\ failed_cookies' = o.failed
           /\ last' = IF o.ops = <<>> THEN last
                      ELSE Call(o.ops[1], rcookie[TheRequest], None, {})
           /\ rpc' = [rpc EXCEPT ![TheRequest] = PcAfterStatus(status)]
           /\ IF o.raise # 0
              THEN /\ req' = Fault(logged,
                                   IF status = 401 THEN "status_401"
                                   ELSE "status_other", o.raise)
                   /\ UNCHANGED <<body, sr>>
              ELSE /\ req' = [logged EXCEPT !.conn = Unwound(@)]
                   /\ body' \in RequestBodies
                   /\ sr' = StreamStart
    /\ UNCHANGED <<cookies, current_index, rcookie, hc_pc, hc_todo, focus, owed,
                   tf, steady, taskVars, impl, show_think, pos, dec>>

\* Lines 198-206: httpx.RequestError while the call is under way.
PxRequestError ==
    /\ rpc[TheRequest] = "sent"
    /\ LET o == OnRequestError(failed_cookies, rcookie[TheRequest])
       IN  /\ failed_cookies' = o.failed
           /\ last' = Call(o.ops[1], rcookie[TheRequest], None, {})
           /\ req' = Fault([req EXCEPT !.log = @ \o o.ops], "transport", o.raise)
    /\ rpc' = [rpc EXCEPT ![TheRequest] = "done"]
    /\ UNCHANGED <<cookies, current_index, rcookie, hc_pc, hc_todo, focus, owed,
                   auxVars, impl, show_think, body, pos, dec>>

\* Lines 215, 320 and 404: the first step of
\* `async for chunk in response.aiter_text(...)` on the response that
\* proxy_request returned.  The response is closed, so the read raises
\* (httpx.StreamClosed, no httpx.RequestError).  stream_response turns the
\* exception into one error event and ends (388-397); non_stream_response
\* has no handler and the request ends with the exception.
PxRead ==
    /\ rpc[TheRequest] = "streaming"
    /\ req.conn = "closed"
    /\ IF req.stream
       THEN /\ sr' = [sr EXCEPT !.events = Append(@, ErrorEvent("StreamClosed")),
                                !.outcome = "error"]
            /\ req' = [req EXCEPT !.result = "stream_end", !.status = 200]
       ELSE /\ sr' = [sr EXCEPT !.outcome = "error"]
            /\ req' = Fault(req, "crash", 500)
    /\ rpc' = [rpc EXCEPT ![TheRequest] = "done"]
    /\ UNCHANGED <<cookies, current_index, failed_cookies, rcookie, hc_pc,
                   hc_todo, last, focus, owed, tf, steady, taskVars, impl,
                   show_think, body, pos, dec>>

NextProxy ==
    \/ PxAcquire
    \/ \E status \in Statuses : PxStatus(status)
    \/ PxRequestError
    \/ PxRead

SpecProxy == InitProxy /\ [][NextProxy]_vars

(***************************************************************************)
(* The tasks at the granularity of the pool's lock: cookie_manager.py      *)
(* 25-61 and 129-148, main.py 26-40.  Taking the lock, each statement that *)
(* changes the pool, and releasing the lock are steps of their own, and a  *)
(* task may be overtaken between any two of them.                          *)
(***************************************************************************)
\* A lock that lets every task in.
MayEnter_NoLock(holder) == TRUE

\* "async with self.lock" (lines 30, 52, 58): asyncio.Lock.acquire returns
\* when no task holds the lock.
MayEnter(holder) == holder = NoTask

\* A block that returns without giving the lock back.
Released_StillHeld(holder) == holder

\* Leaving the "async with self.lock" block releases the lock.
Released(holder) == NoTask

\* The pcs at which a task waits for the lock, is inside it, and has a
\* network call in flight.
LockPcs == {"gnc_lock", "mf_lock", "ms_lock"}
ExitPcs == {"gnc_exit", "mf_exit", "ms_exit"}
NetworkPcs == {"call", "read", "probe"}

\* The pool in which every task starts: a configured list of distinct
\* credentials, nothing failed, nobody in the lock.
InitTasks ==
    /\ cookies \in {[i \in 1..n |-> i] : n \in 0..MaxPool}
    /\ current_index = 0
    /\ failed_cookies = {}
    /\ rpc = [r \in Requests |-> "init"]
    /\ rcookie = [r \in Requests |-> None]
    /\ hc_pc = "sleep"
    /\ hc_todo = {}
    /\ last = [op |-> "init", arg |-> None, ret |-> None, skipped |-> {},
               pre_failed |-> {}, pre_index |-> 0]
    /\ focus = 1
    /\ owed = {}
    /\ impl = "B"
    /\ show_think = FALSE
    /\ body = <<>>
    /\ pos = 0
    /\ dec = [DecoderStart EXCEPT !.outcome = "idle"]
    /\ req = RequestIdle
    /\ tf = TransformIdle
    /\ sr = StreamIdle
    /\ steady = {}
    /\ TasksIdle

idleVars == <<cookies, rpc, rcookie, last, focus, owed,
              impl, show_think, body, pos, dec, req, tf, sr, steady>>

\* get_next_cookie, lines 27-30: None at once for the empty pool (read
\* outside the lock), else the task goes for the lock.
WkCall(w) ==
    /\ life = "serving"
    /\ wk[w].pc = "init"
    /\ wk' = [wk EXCEPT ![w].pc = IF cookies = <<>> THEN "init" ELSE "gnc_lock"]
    /\ UNCHANGED <<current_index, failed_cookies, hc_pc, hc_todo, lock, hc,
                   life, idleVars>>

\* Lines 30, 52, 58: the task gets the lock.
WkEnter(w) ==
    /\ wk[w].pc \in LockPcs
    /\ MayEnter(lock)
    /\ lock' = w
    /\ wk' = [wk EXCEPT ![w].pc = CASE @ = "gnc_lock" -> "gnc_scan"
                                    [] @ = "mf_lock" -> "mf_in"
                                    [] @ = "ms_lock" -> "ms_in",
                        ![w].attempts = 0,
                        ![w].entry = [index |-> current_index,
                                      failed |-> failed_cookies]]
    /\ UNCHANGED <<current_index, failed_cookies, hc_pc, hc_todo, hc, life,
                   idleVars>>

\* Lines 31-47: one iteration of the scan, or the reset after it.
WkScan(w) ==
    /\ wk[w].pc = "gnc_scan"
    /\ IF wk[w].attempts < Len(cookies)
       THEN LET cookie == cookies[current_index + 1]
            IN  /\ current_index' = (current_index + 1) % Len(cookies)
                /\ wk' = IF cookie \notin failed_cookies
                         THEN [wk EXCEPT ![w].cookie = cookie,
                                         ![w].pc = "gnc_exit"]
                         ELSE [wk EXCEPT ![w].attempts = @ + 1]
                /\ UNCHANGED failed_cookies
       ELSE /\ failed_cookies' = {}
            /\ wk' = [wk EXCEPT ![w].cookie = cookies[1], ![w].pc = "gnc_exit"]
            /\ UNCHANGED current_index
    /\ UNCHANGED <<hc_pc, hc_todo, lock, hc, life, idleVars>>

\* Lines 53 and 59-60: the statement of mark_cookie_failed or
\* mark_cookie_success that changes the failed set.
WkMark(w) ==
    /\ wk[w].pc \in {"mf_in", "ms_in"}
    /\ failed_cookies' =
           IF wk[w].pc = "mf_in"
           THEN mark_cookie_failed(failed_cookies, wk[w].cookie)
           ELSE mark_cookie_success(failed_cookies, wk[w].cookie)
    /\ wk' = [wk EXCEPT ![w].pc = IF @ = "mf_in" THEN "mf_exit" ELSE "ms_exit"]
    /\ UNCHANGED <<current_index, hc_pc, hc_todo, lock, hc, life, idleVars>>

\* The task leaves the "async with" block: after get_next_cookie it sends
\* the upstream call (proxy_handler.py 516-528), after mark_cookie_failed it
\* raises, after mark_cookie_success it reads the body (541-542).
WkExit(w) ==
    /\ wk[w].pc \in ExitPcs
    /\ lock' = Released(lock)
    /\ wk' = [wk EXCEPT ![w] =
                 CASE @.pc = "gnc_exit" ->
                        [WorkerIdle EXCEPT !.pc = "call", !.cookie = wk[w].cookie]
                   [] @.pc = "mf_exit" -> WorkerIdle
                   [] @.pc = "ms_exit" ->
                        [WorkerIdle EXCEPT !.pc = "read", !.cookie = wk[w].cookie]]
    /\ UNCHANGED <<current_index, failed_cookies, hc_pc, hc_todo, hc, life,
                   idleVars>>

\* proxy_handler.py 530-538 and 622-625: the upstream call comes back, with
\* status 200 or with another status or a transport failure.
WkResponse(w, ok) ==
    /\ wk[w].pc = "call"
    /\ wk' = [wk EXCEPT ![w].pc = IF ok THEN "ms_lock" ELSE "mf_lock"]
    /\ UNCHANGED <<current_index, failed_cookies, hc_pc, hc_todo, lock, hc,
                   life, idleVars>>

\* proxy_handler.py 541-625: the body has been read to its end, or the read
\* fails with httpx.RequestError.
WkBody(w, ok) ==
    /\ wk[w].pc = "read"
    /\ wk' = [wk EXCEPT ![w] = IF ok THEN WorkerIdle
                                ELSE [@ EXCEPT !.pc = "mf_lock"]]
    /\ UNCHANGED <<current_index, failed_cookies, hc_pc, hc_todo, lock, hc,
                   life, idleVars>>

\* Lines 145 and 148: asyncio.sleep returns and the loop goes round (once
\* the task is cancelled, its await raises instead of returning).
HcWake ==
    /\ life # "stopping"
    /\ hc_pc \in {"sleep", "backoff"}
    /\ hc_pc' = "cycle"
    /\ UNCHANGED <<current_index, failed_cookies, hc_todo, lock, wk, hc, life,
                   idleVars>>

\* Lines 133-136: the cycle starts; with credentials in the failed set the
\* loop runs over a copy of it, else the task sleeps again (line 145).
HcBegin ==
    /\ hc_pc = "cycle"
    /\ IF cookies # <<>> /\ failed_cookies # {}
       THEN /\ hc_pc' = "iter"
            /\ hc_todo' = failed_cookies
            /\ hc' = [CycleIdle EXCEPT !.start = failed_cookies]
       ELSE /\ hc_pc' = "sleep"
            /\ hc_todo' = {}
            /\ hc' = CycleIdle
    /\ UNCHANGED <<current_index, failed_cookies, lock, wk, life, idleVars>>

\* A loop that never advances past the credential it took.
HcIter_SameAgain(todo, cookie) == todo

\* Line 136: the loop goes on with the rest of the list.
HcIter(todo, cookie) == todo \ {cookie}

\* Lines 136-137: the next credential of the list is probed, or the list
\* is exhausted and the task sleeps (line 145).  The count of the probes of
\* one credential in one cycle is followed up to 2.
HcNextCookie ==
    /\ hc_pc = "iter"
    /\ IF hc_todo = {}
       THEN /\ hc_pc' = "sleep"
            /\ hc' = CycleIdle
            /\ UNCHANGED hc_todo
       ELSE \E cookie \in hc_todo :
                /\ hc.probes[cookie] < 2
                /\ hc_pc' = "probe"
                /\ hc_todo' = HcIter(hc_todo, cookie)
                /\ hc' = [hc EXCEPT !.cur = cookie, !.probes[cookie] = @ + 1]
    /\ UNCHANGED <<current_index, failed_cookies, lock, wk, life, idleVars>>

\* A loop that takes no notice of what health_check returned.
AfterProbe_ResultIgnored(healthy) == "iter"

\* Lines 138-142: `if await self.health_check(cookie)` goes on to
\* mark_cookie_success, else to the next credential of the list.
AfterProbe(healthy) == IF healthy THEN "ms_lock" ELSE "iter"

\* Lines 63-127 and 138: health_check returns True for status 200, False
\* for any other status and for any exception of the call.  The upstream
\* answers a steady credential with 200.
HcProbeDone(healthy) ==
    /\ life # "stopping"
    /\ hc_pc = "probe"
    /\ hc.cur \in steady => healthy
    /\ hc_pc' = AfterProbe(healthy)
    /\ hc' = IF healthy THEN [hc EXCEPT !.healthy = @ \cup {hc.cur}]
             ELSE [hc EXCEPT !.cur = None]
    /\ UNCHANGED <<current_index, failed_cookies, hc_todo, lock, wk, life,
                   idleVars>>

\* Lines 138 and 58: mark_cookie_success gets the lock.
HcEnter ==
    /\ hc_pc = "ms_lock"
    /\ MayEnter(lock)
    /\ lock' = HealthTask
    /\ hc_pc' = "ms_in"
    /\ hc' = [hc EXCEPT !.entry = [index |-> current_index,
                                   failed |-> failed_cookies]]
    /\ UNCHANGED <<current_index, failed_cookies, hc_todo, wk, life, idleVars>>

\* Lines 59-60: the credential leaves the failed set if it is in it.
HcMark ==
    /\ hc_pc = "ms_in"
    /\ failed_cookies' = mark_cookie_success(failed_cookies, hc.cur)
    /\ hc' = [hc EXCEPT !.marked = @ \cup {hc.cur},
                        !.removed = @ \cup (failed_cookies \ failed_cookies')]
    /\ hc_pc' = "ms_exit"
    /\ UNCHANGED <<current_index, hc_todo, lock, wk, life, idleVars>>

\* mark_cookie_success leaves the lock and the loop goes on.
HcExit ==
    /\ hc_pc = "ms_exit"
    /\ lock' = Released(lock)
    /\ hc_pc' = "iter"
    /\ hc' = [hc EXCEPT !.cur = None, !.entry = CycleIdle.entry]
    /\ UNCHANGED <<current_index, failed_cookies, hc_todo, wk, life, idleVars>>

\* A loop that gives up on an error.
AfterError_LoopLeft == "returned"

\* Lines 146-148: an Exception in the cycle is logged and the task sleeps
\* 300 seconds inside the loop.
AfterError == "backoff"

\* Some statement of the cycle raises an Exception.
HcError ==
    /\ hc_pc \in {"cycle", "iter"}
    /\ hc_pc' = AfterError
    /\ hc_todo' = {}
    /\ hc' = CycleIdle
    /\ UNCHANGED <<current_index, failed_cookies, lock, wk, life, idleVars>>

\* The pcs at which the health-check task is suspended in an await when it
\* is cancelled (the lock is free by then: no request is left).
HcAwaits == {"sleep", "backoff", "probe"}

\* main.py 34-35: the server stops (its requests have ended) and lifespan
\* cancels the health-check task and awaits it.
LifeShutdown ==
    /\ life = "serving"
    /\ \A w \in Workers : wk[w].pc = "init"
    /\ life' = "stopping"
    /\ UNCHANGED <<current_index, failed_cookies, hc_pc, hc_todo, lock, wk, hc,
                   idleVars>>

\* The CancelledError is raised in the task where it is suspended.  It is
\* no Exception: neither health_check (line 125) nor the loop (line 146)
\* catches it, and the task ends cancelled.
HcCancel ==
    /\ life = "stopping"
    /\ hc_pc \in HcAwaits
    /\ hc_pc' = "cancelled"
    /\ UNCHANGED <<current_index, failed_cookies, hc_todo, lock, wk, hc, life,
                   idleVars>>

\* What "await health_check_task" inside try / except CancelledError: pass
\* (main.py 36-39) comes to for a task that has ended.
AwaitTask(pc) == IF pc \in {"cancelled", "returned"} THEN "stopped" ELSE "raised"

\* main.py 36-40: the awaited task has ended.
LifeAwait ==
    /\ life = "stopping"
    /\ hc_pc \in {"cancelled", "returned", "crashed"}
    /\ life' = AwaitTask(hc_pc)
    /\ UNCHANGED <<current_index, failed_cookies, hc_pc, hc_todo, lock, wk, hc,
                   idleVars>>

WorkerNext(w) ==
    \/ WkCall(w)
    \/ WkEnter(w)
    \/ WkScan(w)
    \/ WkMark(w)
    \/ WkExit(w)
    \/ \E ok \in BOOLEAN : WkResponse(w, ok)
    \/ \E ok \in BOOLEAN : WkBody(w, ok)

HealthNext ==
    \/ HcWake
    \/ HcBegin
    \/ HcNextCookie
    \/ \E healthy \in BOOLEAN : HcProbeDone(healthy)
    \/ HcEnter
    \/ HcMark
    \/ HcExit
    \/ HcCancel

NextTasks ==
    \/ \E w \in Workers : WorkerNext(w)
    \/ HealthNext
    \/ HcError
    \/ LifeShutdown
    \/ LifeAwait

SpecTasks == InitTasks /\ [][NextTasks]_vars

\* A request task runs one call of get_next_cookie, mark_cookie_failed or
\* mark_cookie_success from taking the lock to releasing it, between two
\* steps of the health-check task: no call awaits anything inside the lock
\* (lines 30-47, 52-54, 58-61).
PoolCallAlone(op) ==
    /\ life = "serving"
    /\ lock = NoTask
    /\ \E cookie \in Range(cookies) :
           CASE op = "acquire" ->
                  LET res == get_next_cookie(cookies, current_index, failed_cookies)
                  IN  /\ current_index' = res.index
                      /\ failed_cookies' = res.failed
             [] op = "mark_failed" ->
                  /\ failed_cookies' = mark_cookie_failed(failed_cookies, cookie)
                  /\ UNCHANGED current_index
             [] op = "mark_success" ->
                  /\ failed_cookies' = mark_cookie_success(failed_cookies, cookie)
                  /\ UNCHANGED current_index
    /\ UNCHANGED <<hc_pc, hc_todo, taskVars, idleVars>>

NextHealth ==
    \/ \E op \in {"acquire", "mark_failed", "mark_success"} : PoolCallAlone(op)
    \/ HealthNext
    \/ HcError
    \/ LifeShutdown
    \/ LifeAwait

\* The health-check task and lifespan beside requests whose pool calls run
\* whole.  The event loop runs every task that is ready: a sleep and a probe
\* (10 s timeout, line 115) come back, and lifespan is resumed when the task
\* it awaits has ended.
SpecHealthFair ==
    /\ InitTasks
    /\ [][NextHealth]_vars
    /\ WF_vars(HealthNext)
    /\ WF_vars(LifeAwait)

\* From this point on the upstream accepts the credential: every probe of
\* it returns True.
UpstreamSteady(cookie) ==
    /\ life = "serving"
    /\ cookie \in Range(cookies) \ steady
    /\ steady' = steady \cup {cookie}
    /\ UNCHANGED <<poolVars, impl, show_think, body, pos, dec, req, tf, sr,
                   taskVars>>

NextRecovery ==
    \/ \E op \in {"acquire", "mark_failed", "mark_success"} : PoolCallAlone(op)
    \/ \E cookie \in Creds : UpstreamSteady(cookie)
    \/ HealthNext
    \/ LifeShutdown
    \/ LifeAwait

\* The health-check task beside requests whose pool calls run whole, and an
\* upstream that may come to accept a credential for good.  No statement of
\* the cycle raises an Exception here: health_check catches every one
\* (lines 125-127) and mark_cookie_success raises none.  The event loop
\* runs the task whenever it is ready: its sleep (line 145) and its probe
\* (10 s timeout, line 115) come back, and the lock is free between two
\* pool calls, none of which awaits inside it.
SpecRecoveryFair ==
    /\ InitTasks
    /\ [][NextRecovery]_vars
    /\ WF_vars(HealthNext)

(***************************************************************************)
(* Claims about the credential pool, checked under Spec                    *)
(***************************************************************************)
\* The pool holds no credential twice.
PoolDistinct == Cardinality(Range(cookies)) = Len(cookies)

\* C1: in a pool of distinct credentials, when acquire() returns a credential
\* it returned before, every other credential that stayed outside the failed
\* set since then has been returned in between (none was skipped).
C1_CyclesBeforeRepeating ==
    (PoolDistinct /\ last.op = "acquire" /\ last.ret = focus)
        => last.skipped = {}

\* C2: a credential returned by acquire() belongs to the pool and is outside
\* the failed set when it is returned.
C2_AcquireReturnsEligible ==
    (last.op = "acquire" /\ last.ret # None)
        => /\ last.ret \in Range(cookies)
           /\ last.ret \notin failed_cookies

\* acquire() has just skipped a failed credential under the cursor.
C2_Witness ==
    /\ last.op = "acquire"
    /\ last.ret # None
    /\ cookies[last.pre_index + 1] \in last.pre_failed
    /\ last.pre_failed # Range(cookies)

\* C3: acquire() called with every credential of a non-empty pool failed
\* empties the failed set and returns the first credential of the pool.
C3_AllFailedReset ==
    (last.op = "acquire" /\ Len(cookies) > 0
        /\ Range(cookies) \subseteq last.pre_failed)
        => /\ failed_cookies = {}
           /\ last.ret = cookies[1]

\* The reset has just happened with the cursor away from index 0.
C3_Witness ==
    /\ last.op = "acquire"
    /\ Len(cookies) > 1
    /\ PoolDistinct
    /\ Range(cookies) \subseteq last.pre_failed
    /\ last.pre_index # 0

\* C4: acquire() returns none exactly when the pool is empty.
C4_NoneIffEmpty ==
    last.op = "acquire" => (last.ret = None <=> Len(cookies) = 0)

\* acquire() has just returned a credential although all were failed.
C4_Witness ==
    /\ last.op = "acquire"
    /\ last.ret # None
    /\ last.pre_failed = Range(cookies)
    /\ \E r \in Requests : rpc[r] = "streaming"

\* C5 as stated: the cursor is in [0, len(pool)) and the failed set is a
\* subset of the pool, for every pool the manager can be constructed with.
C5_CursorInRangeAnyPool ==
    /\ current_index \in 0..(Len(cookies) - 1)
    /\ failed_cookies \subseteq Range(cookies)

\* C5 amended: the failed set is a subset of the pool; the cursor is in
\* [0, len(pool)) when the pool is non-empty and is 0 when it is empty.
C5_CursorInRangeNonEmpty ==
    /\ failed_cookies \subseteq Range(cookies)
    /\ Len(cookies) > 0 => current_index \in 0..(Len(cookies) - 1)
    /\ Len(cookies) = 0 => current_index = 0

\* The cursor has wrapped around a pool with failed credentials in it.
C5_Witness ==
    /\ Len(cookies) >= 2
    /\ last.op = "acquire"
    /\ last.pre_index = Len(cookies) - 1
    /\ current_index = 0
    /\ failed_cookies # {}

\* C6: mark_success(c) leaves c outside the failed set, also right after
\* mark_failed(c); marking an already failed credential failed, or a
\* non-failed one successful, changes neither the failed set nor the cursor;
\* each of the two calls done twice equals the call done once.
C6_MarkAlgebra ==
    /\ last.op = "mark_success" => last.arg \notin failed_cookies
    /\ (last.op = "mark_failed" /\ last.arg \in last.pre_failed)
           => (failed_cookies = last.pre_failed /\ current_index = last.pre_index)
    /\ (last.op = "mark_success" /\ last.arg \notin last.pre_failed)
           => (failed_cookies = last.pre_failed /\ current_index = last.pre_index)
    /\ last.op = "mark_failed" => last.arg \in failed_cookies
    /\ \A c \in Range(cookies) :
         LET f == mark_cookie_failed(failed_cookies, c)
             g == mark_cookie_success(failed_cookies, c)
         IN  /\ c \notin mark_cookie_success(f, c)
             /\ mark_cookie_failed(f, c) = f
             /\ mark_cookie_success(g, c) = g

\* A failed credential has just been reinstated by mark_success.
C6_Witness ==
    /\ last.op = "mark_success"
    /\ last.arg \in last.pre_failed
    /\ failed_cookies # {}

(***************************************************************************)
(* Claims about the stream decoders, checked under SpecDecoder             *)
(***************************************************************************)
\* What a decoder has produced: everything but its buffer.
Produced(st) == [decoded |-> st.decoded, events |-> st.events,
                 outcome |-> st.outcome, detail |-> st.detail]

\* The text delivered so far.
Seen == SubSeq(body, 1, pos)

\* The chosen decoder given a text in one single read.
OneRead(text) == OnChunk(impl, show_think, DecoderStart, text)

\* The positions of the "\n" of a text, and the line each one ends.
LineEnds(text) == {i \in 1..Len(text) : text[i] = NL}
LineStart(text, e) ==
    IF \E j \in 1..(e - 1) : text[j] = NL
    THEN 1 + CHOOSE j \in 1..(e - 1) :
                 text[j] = NL /\ \A m \in (j + 1)..(e - 1) : text[m] # NL
    ELSE 1
LineAt(text, e) == SubSeq(text, LineStart(text, e), e - 1)

\* What a complete line is, by the wire protocol and the record it carries.
LineKind(raw) ==
    LET line == Strip(raw)
    IN  IF ~StartsWithData(line) THEN "noise"
        ELSE IF Payload(line) = <<"[DONE]">> THEN "sentinel"
        ELSE IF Payload(line) \notin JsonTexts THEN "unparsable"
        ELSE IF ~JsonValue(Payload(line)).isobj THEN "nonobject"
        ELSE IF HasErrorIndicator(JsonValue(Payload(line))) THEN "error"
        ELSE "record"

\* The ends of the complete lines of the given kinds.
EndsOfKind(text, kinds) ==
    {e \in LineEnds(text) : LineKind(LineAt(text, e)) \in kinds}

Least(S) == CHOOSE x \in S : \A y \in S : x <= y

\* C7: whatever the reads the text was split into (in the middle of a line,
\* empty reads), a decoder has produced at every point the records, events
\* and outcome it produces on the delivered text given in one read, and once
\* it has ended, those it produces on the whole body given in one read.
C7_ChunkingInvariance ==
    LET ref == OneRead(Seen)
    IN  /\ Produced(OnEnd(dec)) = Produced(OnEnd(ref))
        /\ dec.outcome # "eof" => dec.outcome = ref.outcome
        /\ dec.outcome # "running" =>
               Produced(dec) = Produced(OnEnd(OneRead(body)))

\* A read has ended in the middle of a line, after a record and before more.
C7_Witness ==
    /\ dec.outcome = "running"
    /\ dec.decoded # <<>>
    /\ dec.buffer # <<>>
    /\ EndsOfKind(SubSeq(body, pos - Len(dec.buffer) + 1, Len(body)),
                  {"record", "error", "sentinel"}) # {}

\* C8: once a complete sentinel line has been delivered, the decoder has
\* ended, with the sentinel outcome unless an earlier line aborted it, and
\* what it has produced is what it produces on the text cut right after the
\* first sentinel line: nothing that follows adds a record, an event or an
\* error.
C8_SentinelTerminates ==
    LET ends == EndsOfKind(Seen, {"sentinel"})
    IN  ends # {} =>
          LET first == Least(ends)
              aborts == IF impl = "A" THEN {"nonobject", "error"}
                        ELSE {"nonobject"}
          IN  /\ dec.outcome # "running"
              /\ Produced(dec) = Produced(OneRead(SubSeq(Seen, 1, first)))
              /\ (\A e \in EndsOfKind(Seen, aborts) : e > first)
                     => dec.outcome = "sentinel"

\* The sentinel ended a decoder that holds a later complete line unread.
C8_Witness ==
    /\ dec.outcome = "sentinel"
    /\ dec.decoded # <<>>
    /\ EndsOfKind(dec.buffer, {"record", "error"}) # {}

\* C9: when the first complete line that is not skipped or yielded is a
\* record with an error indicator, the decoder has aborted with the
\* upstream-error condition carrying that record's detail, having yielded
\* exactly the records before it.
C9_ErrorRecordAborts ==
    LET stops == EndsOfKind(Seen, {"sentinel", "nonobject", "error"})
    IN  (stops # {} /\ LineKind(LineAt(Seen, Least(stops))) = "error") =>
          LET e == Least(stops)
              parsed == JsonValue(Payload(Strip(LineAt(Seen, e))))
          IN  /\ dec.outcome = "upstream_error"
              /\ dec.detail = ErrorDetail(parsed)
              /\ Len(dec.decoded) =
                   Cardinality({r \in EndsOfKind(Seen, {"record"}) : r < e})

\* C9 for process_streaming_response alone.
C9_ErrorRecordAbortsInA == impl = "A" => C9_ErrorRecordAborts

RECURSIVE Denoise(_)
\* A text without its complete lines that are noise or unparsable.
Denoise(text) ==
    IF NL \notin Range(text) THEN text
    ELSE LET i == FirstNL(text)
             rest == SubSeq(text, i + 1, Len(text))
         IN  IF LineKind(SubSeq(text, 1, i - 1)) \in {"noise", "unparsable"}
             THEN Denoise(rest)
             ELSE SubSeq(text, 1, i) \o Denoise(rest)

\* The kinds of the complete lines of a text, in order.
RECURSIVE KindsOf(_)
KindsOf(text) ==
    IF NL \notin Range(text) THEN <<>>
    ELSE LET i == FirstNL(text)
         IN  <<LineKind(SubSeq(text, 1, i - 1))>>
                 \o KindsOf(SubSeq(text, i + 1, Len(text)))

\* C10: lines without the prefix and prefixed lines with an unparsable
\* payload add nothing: at every point a decoder has produced what it
\* produces on the delivered text with those lines taken out, so no record
\* before or after them is lost or reordered and no error comes of them.
C10_NoiseSkipped ==
    LET ref == OneRead(Denoise(Seen))
    IN  /\ dec.decoded = ref.decoded
        /\ dec.events = ref.events
        /\ dec.detail = ref.detail
        /\ OnEnd(dec).outcome = OnEnd(ref).outcome

\* Both records around a comment line and an unparsable line were decoded.
C10_Witness ==
    /\ dec.outcome = "eof"
    /\ Len(dec.decoded) = 2
    /\ \E ks \in {<<"record", "noise", "record">>,
                  <<"record", "unparsable", "record">>} : KindsOf(body) = ks

(***************************************************************************)
(* Claims about one client request, checked under SpecRequest              *)
(***************************************************************************)
\* The values of "phase" in the upstream's records ("" when it is missing).
Phases == {"answer", "thinking", "other", ""}

\* The non-empty delta_content of the records of the given phases, in order.
RECURSIVE DeltasOf(_, _)
DeltasOf(records, phases) ==
    IF records = <<>> THEN <<>>
    ELSE IF Head(records).data.phase \in phases
            /\ Head(records).data.delta_content # <<>>
    THEN <<Head(records).data.delta_content>> \o DeltasOf(Tail(records), phases)
    ELSE DeltasOf(Tail(records), phases)

\* The upstream body has ended: by the sentinel, or by the connection
\* closing without one.
BodyEnded == dec.outcome \in {"sentinel", "eof"}

\* A record with an error indicator has been decoded.
ErrorDecoded == \E i \in 1..Len(dec.decoded) : HasErrorIndicator(dec.decoded[i])

\* C11: streaming request, upstream exchange succeeded: when the body has
\* ended, by the sentinel or by the connection closing, the outbound stream
\* is content events, then exactly one terminal event (empty delta, finish
\* reason stop), then "data: [DONE]" as its last item.
C11_OneTerminalEventLast ==
    (req.stream /\ BodyEnded) =>
        LET n == Len(dec.events)
        IN  /\ n >= 2
            /\ dec.events[n] = DoneEvent
            /\ dec.events[n - 1] = FinalEvent
            /\ \A i \in 1..(n - 2) : dec.events[i].type = "content"

\* C11 for bodies ended by the sentinel alone.
C11_OneTerminalEventAtSentinel ==
    (req.stream /\ dec.outcome = "sentinel") =>
        LET n == Len(dec.events)
        IN  /\ n >= 2
            /\ dec.events[n] = DoneEvent
            /\ dec.events[n - 1] = FinalEvent
            /\ \A i \in 1..(n - 2) : dec.events[i].type = "content"

\* C12: streaming request: once a record with an error indicator has been
\* decoded, the outbound stream ends with exactly one error-shaped event,
\* after content events only: no terminal event and no end sentinel.
C12_ErrorEventEndsStream ==
    (req.stream /\ ErrorDecoded) =>
        LET n == Len(dec.events)
        IN  /\ n >= 1
            /\ dec.events[n].type = "error"
            /\ \A i \in 1..(n - 1) : dec.events[i].type = "content"

Responded == ~req.stream /\ req.result = "response"

\* The chunks the non-streaming aggregation counts: all of them when
\* thinking is revealed, those of the answer phase when not.
Eligible(show) == IF show THEN Phases ELSE {"answer"}

\* C14: non-streaming request with reveal-thinking false: the aggregated
\* text is the concatenation, in order, of the delta_content of the decoded
\* chunks whose phase is "answer"; other phases and chunks without a phase
\* contribute nothing.
C14_OnlyAnswerAggregated ==
    (Responded /\ ~show_think) =>
        req.content = Concat(DeltasOf(dec.decoded, {"answer"}))

\* C14 with "every phase but thinking" in place of "the answer phase".
C14_AllButThinkingAggregated ==
    (Responded /\ ~show_think) =>
        req.content = Concat(DeltasOf(dec.decoded, Phases \ {"thinking"}))

\* C15: non-streaming request: the message content of the response is the
\* full transform applied once to the concatenation of the eligible chunks
\* of the whole upstream stream.
C15_ContentIsFullTransform ==
    Responded =>
        req.content =
            transform_content(show_think,
                              Concat(DeltasOf(dec.decoded, Eligible(show_think))))

\* C15 on upstream streams of thinking and answer chunks only.
C15_ContentIsFullTransformKnownPhases ==
    (Responded /\ \A i \in 1..Len(dec.decoded) :
                      dec.decoded[i].data.phase \in {"thinking", "answer"}) =>
        req.content =
            transform_content(show_think,
                              Concat(DeltasOf(dec.decoded, Eligible(show_think))))

\* C16: non-streaming request: when the upstream stream has completed
\* without a single decoded chunk, the request has ended in a fault and no
\* response object was returned.
C16_NoChunkIsFault ==
    (~req.stream /\ BodyEnded /\ dec.decoded = <<>>) =>
        req.result = "fault"

\* C17: a request that ended on the authentication-rejection status (401)
\* or on a transport failure called mark_failed on the credential it had
\* acquired, as its last call before the error left the handler: the
\* credential is in the failed set when the caller sees the error.
C17_FailureMarksCredential ==
    (req.result = "fault" /\ req.cause \in {"status_401", "transport"}) =>
        /\ req.log[Len(req.log)] = "mark_failed"
        /\ last.op = "mark_failed"
        /\ last.arg = rcookie[TheRequest]
        /\ rcookie[TheRequest] \in Range(cookies)
        /\ rcookie[TheRequest] \in failed_cookies

\* A transport failure in the middle of the body, after an outbound event.
C17_Witness ==
    /\ req.result = "fault"
    /\ req.cause = "transport"
    /\ dec.events # <<>>
    /\ pos < Len(body)
    /\ rcookie[TheRequest] \in failed_cookies

\* C18: on a success status mark_success is called on the acquired
\* credential when the headers arrive: it is the request's third call
\* (after acquire and the upstream call) whenever anything of the body has
\* been read, decoded or emitted, and while the body is being read it is the
\* pool's last call, on a credential that is not failed.
C18_SuccessMarkedAtHeaders ==
    /\ dec.outcome # "idle" =>
           /\ Len(req.log) >= 3
           /\ SubSeq(req.log, 1, 3) = <<"acquire", "send", "mark_success">>
    /\ dec.outcome = "idle" =>
           /\ "mark_success" \notin Range(req.log)
           /\ pos = 0 /\ dec.decoded = <<>> /\ dec.events = <<>>
    /\ rpc[TheRequest] = "streaming" =>
           /\ last.op = "mark_success"
           /\ last.arg = rcookie[TheRequest]
           /\ rcookie[TheRequest] \notin failed_cookies

\* The headers of a 200 response have arrived and nothing was read yet.
C18_Witness ==
    /\ rpc[TheRequest] = "streaming"
    /\ pos = 0
    /\ dec = DecoderStart
    /\ body # <<>>
    /\ req.log = <<"acquire", "send", "mark_success">>

\* C19: once a record with an error indicator has been decoded, the stream
\* is aborted (it is the last record decoded), the error is surfaced (an
\* error event ends the outbound stream of a streaming request, a
\* non-streaming request has ended in a fault), and the credential was not
\* marked failed.
C19_ProtocolErrorAbortsUnmarked ==
    ErrorDecoded =>
        /\ HasErrorIndicator(dec.decoded[Len(dec.decoded)])
        /\ IF req.stream
           THEN dec.events # <<>> /\ dec.events[Len(dec.events)].type = "error"
           ELSE req.result = "fault"
        /\ "mark_failed" \notin Range(req.log)
        /\ rcookie[TheRequest] \notin failed_cookies

\* C19, the pool alone: the step that decodes a record with an error
\* indicator leaves the failed set and the cursor as they were.
C19_ErrorRecordLeavesPool ==
    [][(ErrorDecoded' /\ ~ErrorDecoded) =>
           /\ failed_cookies' = failed_cookies
           /\ current_index' = current_index
           /\ req'.log = req.log]_vars

\* C20: within one request acquire() is called once and at most one
\* upstream call is issued; a request that has ended, on whatever failure,
\* is over: no second credential, no retry.
C20_OneAcquireNoRetry ==
    /\ req.acquires <= 1
    /\ req.calls <= req.acquires
    /\ rpc[TheRequest] # "init" => req.acquires = 1
    /\ req.result # "none" => rpc[TheRequest] = "done"
    /\ rpc[TheRequest] = "done" => ~ENABLED RqAcquire

\* The request ended on a 401 while another credential was not failed.
C20_Witness ==
    /\ req.result = "fault"
    /\ req.cause = "status_401"
    /\ Range(cookies) \ failed_cookies # {}
    /\ req.acquires = 1
    /\ req.calls = 1

\* C21: when the client of a streaming request disconnects, at any point
\* after the upstream call was sent, the upstream connection is closed and
\* the pool is left alone: no mark_failed or mark_success is issued for it,
\* the cursor and the failed set keep their values.
C21_DisconnectLeavesPool ==
    [][(req.result # "cancelled" /\ req'.result = "cancelled")
          => /\ req'.conn = "closed"
             /\ req'.log = req.log
             /\ failed_cookies' = failed_cookies
             /\ current_index' = current_index]_vars

\* The client went away while the body was relayed, some content already
\* sent, and the upstream connection was closed.
C21_Witness ==
    /\ req.result = "cancelled"
    /\ req.conn = "closed"
    /\ Collect(dec.events) # <<>>
    /\ pos < Len(body)

\* The records of the complete lines of a text in the order of their arrival,
\* up to the line that ends the decoding (the sentinel, or a payload that is
\* no object); lines that carry no record are passed over.
RECURSIVE ArrivedRecords(_)
ArrivedRecords(text) ==
    IF NL \notin Range(text) THEN <<>>
    ELSE LET i == FirstNL(text)
             raw == SubSeq(text, 1, i - 1)
             rest == SubSeq(text, i + 1, Len(text))
         IN  IF LineKind(raw) \in {"sentinel", "nonobject"} THEN <<>>
             ELSE IF LineKind(raw) \in {"noise", "unparsable"}
             THEN ArrivedRecords(rest)
             ELSE <<JsonValue(Payload(Strip(raw)))>> \o ArrivedRecords(rest)

\* A record is forwarded when it has text and is not a suppressed thinking
\* chunk.
IsForwarded(record) ==
    /\ record.data.delta_content # <<>>
    /\ show_think \/ record.data.phase # "thinking"

IsContent(event) == event.type = "content"

\* C22: within a streaming request the content events sent so far are, one
\* for one and in the same order, the forwarded records of the lines that
\* have arrived: none is reordered, none duplicated, and each event carries
\* the text of exactly one upstream chunk.
C22_EventsInArrivalOrder ==
    req.stream =>
        LET sent == SelectSeq(dec.events, IsContent)
            arrived == SelectSeq(ArrivedRecords(Seen), IsForwarded)
        IN  /\ Len(sent) = Len(arrived)
            /\ \A i \in 1..Len(sent) :
                   sent[i].content =
                       IF show_think
                       THEN SimpleTagReplace(arrived[i].data.delta_content)
                       ELSE arrived[i].data.delta_content

\* Two chunks of different text have been forwarded, and the events are still
\* being sent.
C22_Witness ==
    /\ req.stream
    /\ dec.outcome = "running"
    /\ Len(SelectSeq(dec.events, IsContent)) = 2
    /\ dec.events[1].content # dec.events[2].content

\* The index (from 0) that lies k places after the cursor the last call of
\* the pool found, in rotation order.
Ahead(k) == (last.pre_index + k) % Len(cookies)

\* C29: acquire() called with a credential of the pool outside the failed
\* set returns the first credential outside it at or after the cursor,
\* wrapping around, leaves the cursor at the index after the returned one
\* modulo the length of the pool, and leaves the failed set as it was.
C29_FirstEligibleFromCursor ==
    (last.op = "acquire" /\ ~(Range(cookies) \subseteq last.pre_failed))
        => \E k \in 0..(Len(cookies) - 1) :
               /\ cookies[Ahead(k) + 1] \notin last.pre_failed
               /\ \A j \in 0..(k - 1) : cookies[Ahead(j) + 1] \in last.pre_failed
               /\ last.ret = cookies[Ahead(k) + 1]
               /\ current_index = (Ahead(k) + 1) % Len(cookies)
               /\ failed_cookies = last.pre_failed

\* acquire() has skipped the failed credential under the cursor, at the end
\* of the pool, and wrapped around to the first.
C29_Witness ==
    /\ last.op = "acquire"
    /\ PoolDistinct
    /\ last.pre_index = Len(cookies) - 1
    /\ Len(cookies) > 1
    /\ cookies[last.pre_index + 1] \in last.pre_failed
    /\ last.ret = cookies[1]
    /\ failed_cookies # {}

\* C30: a request calls mark_failed only for an authentication rejection
\* (401) or a transport failure and mark_success only after a success
\* status; a request answered with any other status (429 here) leaves the
\* failed set as it was.  Checked under SpecRequest, where the failed set is
\* empty before the request.
C30_OtherStatusLeavesFailedSet ==
    /\ "mark_failed" \in Range(req.log)
           => req.cause \in {"status_401", "transport"}
    /\ "mark_success" \in Range(req.log) => dec.outcome # "idle"
    /\ req.cause = "status_other" => failed_cookies = {}

\* What the live path does instead: a request answered with a status that is
\* neither 200 nor 401 has called mark_failed last and its credential is in
\* the failed set.
C30_OtherStatusMarksFailed ==
    req.cause = "status_other"
        => /\ req.log[Len(req.log)] = "mark_failed"
           /\ rcookie[TheRequest] \in failed_cookies

\* C31: a decoder is total on prefixed lines: whatever the payloads of the
\* lines delivered, it is still reading, or has ended on the sentinel, on the
\* end of the body or on the upstream-error condition; no other failure
\* leaves it.  Checked under SpecDecoder, whose bodies hold the payload `1`,
\* which parses and is no object.
C31_TotalOnPrefixedLines ==
    dec.outcome \in {"running", "sentinel", "eof", "upstream_error"}

\* What holds instead: no other failure leaves a decoder as long as every
\* payload delivered that parses is an object whose data and error fields,
\* where present, are objects themselves (every object of JsonTexts is).
C31_TotalOnObjectPayloads ==
    EndsOfKind(Seen, {"nonobject"}) = {}
        => dec.outcome \in {"running", "sentinel", "eof", "upstream_error"}

(***************************************************************************)
(* Claims about recovery, checked under SpecRecoveryFair                   *)
(***************************************************************************)
\* C34: no credential stays failed forever while it is healthy: a
\* credential that is in the failed set, and every probe of which returns
\* True from now on, leaves the failed set at some later point, whatever
\* the pool calls of the requests in between, unless the server shuts down
\* and cancels the health-check task.
C34_HealthyCredentialRecovers ==
    \A c \in Creds :
        (c \in failed_cookies /\ c \in steady)
            ~> (c \notin failed_cookies \/ life # "serving")

\* The periodic check has just taken a steady credential, failed when the
\* cycle began, out of the failed set.
C34_Witness ==
    /\ life = "serving"
    /\ hc_pc = "ms_exit"
    /\ hc.cur \in steady
    /\ hc.cur \in hc.start
    /\ hc.cur \in hc.removed
    /\ hc.cur \notin failed_cookies

(***************************************************************************)
(* Claims about the path through proxy_request, checked under SpecProxy    *)
(***************************************************************************)
\* C33: the upstream connection is open for as long as the request is in
\* the STREAMING state, that is from mark_cookie_success until the request
\* has ended: the body is read from an open connection, and the connection
\* is not closed between mark_success and the first read of the body.
C33_ConnectionOpenWhileStreaming ==
    rpc[TheRequest] = "streaming" => req.conn = "open"

\* What holds on that path instead: once proxy_request has returned, the
\* connection is closed, and no record of the body is ever decoded.
C33_ProxyReturnsClosedResponse ==
    rpc[TheRequest] = "streaming" => req.conn = "closed" /\ sr.dec.decoded = <<>>

(***************************************************************************)
(* Claims about the two streaming paths, checked under SpecPaths           *)
(***************************************************************************)
\* Both paths have ended.
PathsEnded == dec.outcome # "running" /\ sr.outcome # "running"

\* C32: the two implementations are equivalent at the client boundary: once
\* both have ended on the same upstream body, under the same setting of
\* SHOW_THINK_TAGS, stream_proxy_response has emitted the same sequence of
\* content, final, sentinel and error events as stream_response over
\* process_streaming_response.
C32_PathsEmitSameEvents ==
    PathsEnded => dec.events = sr.events

\* The first complete line of the body that is the sentinel, an error
\* record or a payload that is no object, if there is one.
Decisive == EndsOfKind(body, {"sentinel", "error", "nonobject"})

\* What holds instead: the two agree on the bodies in which the sentinel
\* comes before every error record and every payload that is no object.
C32_SameEventsWhenSentinelFirst ==
    (/\ PathsEnded
     /\ Decisive # {}
     /\ LineKind(LineAt(body, Least(Decisive))) = "sentinel")
        => dec.events = sr.events

\* And until the first such line the two have emitted the same events.
C32_SameEventsBeforeDecisiveLine ==
    EndsOfKind(Seen, {"sentinel", "error", "nonobject"}) = {}
        /\ dec.outcome = "running"
        => dec.events = sr.events

(***************************************************************************)
(* Claims about transform_content, checked under SpecTransform             *)
(***************************************************************************)
\* C23: with SHOW_THINK_TAGS false, transform_content applied to a text it
\* has returned gives that text back unchanged, whatever the first input.
C23_HiddenTransformIdempotent ==
    ~show_think =>
        \A n \in 2..Len(tf.outputs) : tf.outputs[n] = tf.outputs[n - 1]

\* The first application removed an unclosed opening tag with the text after
\* it and kept an answer, and the second application has run.
C23_Witness ==
    /\ ~show_think
    /\ Len(tf.outputs) >= 2
    /\ "<details>" \in Range(tf.input)
    /\ "</details>" \notin Range(tf.input)
    /\ tf.outputs[1] # <<>>
    /\ Len(tf.outputs[1]) + 2 <= Len(tf.input)

\* The text `<details>secret</details>Answer`.
SecretAnswer == <<"<details>", "o", "</details>", "A">>

\* C24: with SHOW_THINK_TAGS true, `<details>secret</details>Answer` comes
\* back as `<think>secret</think>Answer`: the tag pair is rewritten, and since
\* the closing tag is there nothing is synthesized and no newline is put
\* between it and the answer.
C24_ClosedBlockRewrittenInPlace ==
    (show_think /\ tf.input = SecretAnswer /\ tf.outputs # <<>>)
        => tf.outputs[1] = <<"<think>", "o", "</think>", "A">>

\* C24 as stated: the closing tag is followed by a newline before the answer.
C24_NewlineBeforeAnswer ==
    (show_think /\ tf.input = SecretAnswer /\ tf.outputs # <<>>)
        => tf.outputs[1] = <<"<think>", "o", "</think>", NL, "A">>

\* transform_content has been applied to the text with the tags shown.
C24_Witness ==
    /\ show_think
    /\ tf.input = SecretAnswer
    /\ Len(tf.outputs) = 1

(***************************************************************************)
(* Claims about the tasks and the lock, checked under SpecTasks and        *)
(* SpecHealthFair                                                          *)
(***************************************************************************)
\* The health-check cycle has gone through its whole list.
CycleComplete == hc_pc = "iter" /\ hc_todo = {}

\* C25: in a cycle of periodic_health_check no credential is probed twice
\* and none outside the failed set of the cycle's start is probed;
\* mark_success is called only for credentials whose probe returned true,
\* and the cycle removes no other credential from the failed set; when the
\* cycle has gone through its list, every credential of the starting failed
\* set has been probed once and mark_success has been called for exactly
\* those whose probe returned true.
C25_CycleProbesEachOnce ==
    /\ \A c \in Creds : hc.probes[c] <= 1 /\ (hc.probes[c] > 0 => c \in hc.start)
    /\ hc.marked \subseteq hc.healthy
    /\ hc.removed \subseteq hc.healthy
    /\ CycleComplete =>
           /\ \A c \in hc.start : hc.probes[c] = 1
           /\ hc.marked = hc.healthy

\* A cycle over two failed credentials is complete: one probe returned true
\* and that credential was reinstated, the other returned false and the
\* credential is still in the failed set.
C25_Witness ==
    /\ CycleComplete
    /\ Cardinality(hc.start) = 2
    /\ Cardinality(hc.healthy) = 1
    /\ hc.removed = hc.healthy
    /\ (hc.start \ hc.healthy) \subseteq failed_cookies

\* C26: the health-check task ends only cancelled, and only once the
\* shutdown has begun; a sleep, after a normal cycle or after an error, is
\* followed by another cycle (or the cancellation), every cycle comes to
\* its sleep, and lifespan absorbs the cancellation: the shutdown completes
\* and nothing is raised out of it.
C26_LoopRunsUntilCancelled ==
    /\ [](hc_pc \in {"cancelled", "returned", "crashed"}
              => hc_pc = "cancelled" /\ life # "serving")
    /\ [](life # "raised")
    /\ (hc_pc \in {"sleep", "backoff"}) ~> (hc_pc \in {"cycle", "cancelled"})
    /\ (hc_pc = "cycle") ~> (hc_pc \in {"sleep", "backoff", "cancelled"})
    /\ (life = "stopping") ~> (life = "stopped" /\ hc_pc = "cancelled")

\* The task was cancelled in the middle of a cycle, during a probe, and the
\* shutdown has completed.
C26_Witness ==
    /\ life = "stopped"
    /\ hc_pc = "cancelled"
    /\ hc.cur # None
    /\ hc_todo # {}

\* The task t has taken the step.
Moved(t) ==
    IF t = HealthTask
    THEN <<hc_pc, hc_todo, hc>>' # <<hc_pc, hc_todo, hc>>
    ELSE wk'[t] # wk[t]

\* The pool as the call that is about to leave the lock has made it, against
\* the same call run alone on the pool it found when it took the lock.
RanAlone ==
    /\ \A w \in Workers :
           /\ wk[w].pc = "gnc_exit" =>
                  LET res == get_next_cookie(cookies, wk[w].entry.index,
                                             wk[w].entry.failed)
                  IN  /\ wk[w].cookie = res.ret
                      /\ current_index = res.index
                      /\ failed_cookies = res.failed
           /\ wk[w].pc = "mf_exit" =>
                  /\ failed_cookies =
                         mark_cookie_failed(wk[w].entry.failed, wk[w].cookie)
                  /\ current_index = wk[w].entry.index
           /\ wk[w].pc = "ms_exit" =>
                  /\ failed_cookies =
                         mark_cookie_success(wk[w].entry.failed, wk[w].cookie)
                  /\ current_index = wk[w].entry.index
    /\ hc_pc = "ms_exit" =>
           /\ failed_cookies = mark_cookie_success(hc.entry.failed, hc.cur)
           /\ current_index = hc.entry.index

\* C27: a step that changes the cursor or the failed set is a step of the
\* task that holds the lock, and every call of get_next_cookie,
\* mark_cookie_failed and mark_cookie_success leaves the lock with the
\* result and the pool it would have produced run alone from the pool it
\* found when it took the lock: the calls take effect one after the other,
\* in the order in which they took the lock.
C27_MutationsUnderLock ==
    /\ []RanAlone
    /\ [][(current_index' # current_index \/ failed_cookies' # failed_cookies)
             => /\ lock \in Workers \cup {HealthTask}
                /\ lock' = lock
                /\ Moved(lock)]_vars

\* A request is in the middle of the scan of get_next_cookie, past a failed
\* credential, while the health-check task waits for the lock to reinstate
\* one.
C27_Witness ==
    /\ \E w \in Workers : wk[w].pc = "gnc_scan" /\ wk[w].attempts > 0
    /\ hc_pc = "ms_lock"

\* C28: no task holds the lock while it has a network call in flight: a
\* request during its upstream call or its body read, the health-check task
\* during a probe.
C28_NoLockAcrossNetwork ==
    /\ \A w \in Workers : wk[w].pc \in NetworkPcs => lock # w
    /\ hc_pc \in NetworkPcs => lock # HealthTask

\* A request has its upstream call in flight while the health-check task,
\* back from a probe, is inside the lock.
C28_Witness ==
    /\ \E w \in Workers : wk[w].pc = "call"
    /\ hc_pc = "ms_in"
    /\ lock = HealthTask

====
